---- MODULE Spec2Model ----
(***************************************************************************)
(* A model of nuc2not: the Markdown-to-block renderer (src/src/lib.rs,     *)
(* convert) with its text splitter, the submission planner                 *)
(* (PageMaker::make_page / append_children), the retrying write executor   *)
(* (src/src/retries.rs, do_create / do_append) and the walk of a workspace *)
(* (src/src/migrator.rs, Migrator::migrate).                               *)
(*                                                                         *)
(* Spec        a run of create_page, or one outside call of the executor   *)
(* SpecSplit   a call of State::split_text_at_api_limit                    *)
(* SpecRender  a call of convert                                           *)
(* SpecMigrate a run of Migrator::migrate                                  *)
(***************************************************************************)
EXTENDS Integers, Sequences, FiniteSets, TLC

\* The deepest level of nesting allowed in an API request (lib.rs:24).
MAX_NESTING == 1

\* The most a 409 conflicted request is retried (retries.rs:13).
MAX_RETRIES == 5

\* The API limit on the blocks of one append (lib.rs:128).
BatchLimit == 100

\* Bound: the number of catalogue nodes in an unpadded document.
MaxMid == 2

\* Bound: the longest slice an outside caller hands to do_append.
MaxSlice == 2

\* Bound: the multi-byte characters in a row around a split point.
MaxChars == 2

\* Bound: the siblings that follow the first definition of a rendered list,
\* the children of a rendered list item and the rows of a rendered table.
MaxSiblings == 2

\* Bound: the items of a workspace without collections.
MaxFlat == 4

\* Bound: the cells of a row of a rendered table.
MaxCells == 2

\* The futures a stream of migrations polls at a time (migrator.rs:63).
BufferedMax == 3

\* The API limit on the content of one text span (lib.rs:311).
TextLimit == 2000

\* Option<T>: None is the empty sequence, Some(v) the one-element sequence.
None == <<>>

Some(v) == <<v>>

Last(s) == s[Len(s)]

(***************************************************************************)
(* Strings are their UTF-8 bytes (a Rust String): a sequence of numbers    *)
(* 0..255, whose length is String::len.                                    *)
(***************************************************************************)
\* str::is_char_boundary: the start, the end, or a byte that does not
\* continue a character (a continuation byte is 0x80..0xBF).
is_char_boundary(s, index) ==
    IF index = 0 THEN TRUE
    ELSE IF index >= Len(s) THEN index = Len(s)
    ELSE s[index + 1] < 128 \/ s[index + 1] >= 192

\* str::split_at.
split_at(s, mid) == <<SubSeq(s, 1, mid), SubSeq(s, mid + 1, Len(s))>>

(***************************************************************************)
(* Source nodes (markdown::mdast::Node), reduced to the fields the         *)
(* renderer reads.  A text value is a string; the documents of the         *)
(* planner use short strings that are unique in a document (paths).        *)
(***************************************************************************)
MdNode(type, value, children, ordered) ==
    [type |-> type, value |-> value, children |-> children, ordered |-> ordered,
     url |-> <<>>, identifier |-> <<>>, alt |-> <<>>, depth |-> 0]

MdText(p) == MdNode("text", p, <<>>, FALSE)

MdParagraph(p) == MdNode("paragraph", <<>>, <<MdText(p)>>, FALSE)

MdListItem(p, rest) == MdNode("listItem", <<>>, <<MdParagraph(p)>> \o rest, FALSE)

MdList(ordered, items) == MdNode("list", <<>>, items, ordered)

MdTableCell(p) == MdNode("tableCell", <<>>, <<MdText(p)>>, FALSE)

MdTableRow(p) ==
    MdNode("tableRow", <<>>, <<MdTableCell(p \o <<1>>), MdTableCell(p \o <<2>>)>>, FALSE)

MdTable(p) ==
    MdNode("table", <<>>, <<MdTableRow(p \o <<1>>), MdTableRow(p \o <<2>>)>>, FALSE)

MdBlockQuote(p) == MdNode("blockquote", <<>>, <<MdParagraph(p)>>, FALSE)

MdDefinition(identifier, url) ==
    [MdNode("definition", <<>>, <<>>, FALSE) EXCEPT !.identifier = identifier, !.url = url]

\* A node with inline children: paragraph, heading, strong, emphasis, ...
MdParent(type, children) == MdNode(type, <<>>, children, FALSE)

\* A node with a literal value: inlineCode, inlineMath, code, html, math.
MdLiteral(type, value) == MdNode(type, value, <<>>, FALSE)

MdLink(url, children) == [MdParent("link", children) EXCEPT !.url = url]

MdLinkReference(identifier, children) ==
    [MdParent("linkReference", children) EXCEPT !.identifier = identifier]

MdFootnoteReference(identifier) ==
    [MdParent("footnoteReference", <<>>) EXCEPT !.identifier = identifier]

MdImage(alt, url) == [MdParent("image", <<>>) EXCEPT !.alt = alt, !.url = url]

MdImageReference(identifier) ==
    [MdParent("imageReference", <<>>) EXCEPT !.identifier = identifier]

MdHeading(depth, children) == [MdParent("heading", children) EXCEPT !.depth = depth]

(***************************************************************************)
(* Blocks (notion_client::objects::block::Block), reduced to the block     *)
(* type, the rich text, the optional children, the cells of a table row,   *)
(* the width of a table, the url of an image and the expression of an      *)
(* equation.                                                               *)
(***************************************************************************)
Block(block_type, rich_text, children, cells) ==
    [block_type |-> block_type, rich_text |-> rich_text,
     children |-> children, cells |-> cells,
     table_width |-> 0, url |-> <<>>, expression |-> <<>>]

\* RichText::Text: plain_text repeats the content.
RichText(content, link, annotations, href) ==
    [type |-> "text", content |-> content, link |-> link,
     annotations |-> annotations, plain_text |-> Some(content), href |-> href]

\* RichText::Equation: the content is the expression.
Equation(expression, annotations) ==
    [type |-> "equation", content |-> expression, link |-> None,
     annotations |-> Some(annotations), plain_text |-> Some(expression),
     href |-> None]

\* A mutant of floor_boundary: the split point is not moved to a boundary.
floor_boundary_anywhere(content, split_point) == split_point

\* lib.rs:312-315: the split point, moved down to a character boundary.
RECURSIVE floor_boundary(_, _)
floor_boundary(content, split_point) ==
    IF is_char_boundary(content, split_point) THEN split_point
    ELSE floor_boundary(content, split_point - 1)

\* A mutant of split_text_at_api_limit: a text of just the limit is split
\* too.
RECURSIVE split_text_at_api_limit_inclusive(_, _)
split_text_at_api_limit_inclusive(content, style) ==
    IF Len(content) >= TextLimit
    THEN LET split_point == floor_boundary(content, TextLimit)
             parts == split_at(content, split_point)
         IN <<RichText(parts[1], None, Some(style), None)>>
            \o split_text_at_api_limit_inclusive(parts[2], style)
    ELSE <<RichText(content, None, Some(style), None)>>

\* State::split_text_at_api_limit: the spans of a text, none longer than
\* the limit, each under the same style.
RECURSIVE split_text_at_api_limit(_, _)
split_text_at_api_limit(content, style) ==
    IF Len(content) > TextLimit
    THEN LET split_point == floor_boundary(content, TextLimit)
             parts == split_at(content, split_point)
         IN <<RichText(parts[1], None, Some(style), None)>>
            \o split_text_at_api_limit(parts[2], style)
    ELSE <<RichText(content, None, Some(style), None)>>

\* The values of the text nodes among children, joined.
RECURSIVE joined_text(_)
joined_text(children) ==
    IF children = <<>> THEN <<>>
    ELSE (IF Head(children).type = "text" THEN Head(children).value ELSE <<>>)
         \o joined_text(Tail(children))

\* State::render_text.
render_text(input) == split_text_at_api_limit(input.value, "default")

\* State::make_into_rich_text.
make_into_rich_text(children, style) ==
    split_text_at_api_limit(joined_text(children), style)

\* HashMap::get(key), with the key itself when the map has none.
get_or(map, key) == IF key \in DOMAIN map THEN map[key] ELSE key

\* State::render_link: the target is looked up under the link's url.
render_link(state, mdlink) ==
    LET url == get_or(state.links, mdlink.url)
    IN RichText(joined_text(mdlink.children), Some(url), None, Some(url))

\* State::render_linkref.
render_linkref(state, linkref) ==
    LET url == get_or(state.links, linkref.identifier)
    IN RichText(joined_text(linkref.children), Some(url), None, Some(url))

\* State::render_inline_code.
render_inline_code(inline) == RichText(inline.value, None, Some("code"), None)

\* State::render_inline_math.
render_inline_math(math) == Equation(math.value, "code")

\* State::render_noteref.
render_noteref(noteref) == RichText(noteref.identifier, None, Some("gray"), None)

\* State::render_text_node: the rich text of an inline node, None for a
\* node that is not inline.
render_text_node(state, node) ==
    CASE node.type = "delete" ->
           Some(make_into_rich_text(node.children, "strikethrough"))
      [] node.type = "emphasis" -> Some(make_into_rich_text(node.children, "italic"))
      [] node.type = "footnoteReference" -> Some(<<render_noteref(node)>>)
      [] node.type = "inlineCode" -> Some(<<render_inline_code(node)>>)
      [] node.type = "inlineMath" -> Some(<<render_inline_math(node)>>)
      [] node.type = "link" -> Some(<<render_link(state, node)>>)
      [] node.type = "linkReference" -> Some(<<render_linkref(state, node)>>)
      [] node.type = "strong" -> Some(make_into_rich_text(node.children, "bold"))
      [] node.type = "text" -> Some(render_text(node))
      [] OTHER -> None

\* children.iter().filter_map(render_text_node).flatten().collect()
RECURSIVE rich_text_of(_, _)
rich_text_of(state, children) ==
    IF children = <<>> THEN <<>>
    ELSE LET r == render_text_node(state, Head(children))
         IN (IF r = None THEN <<>> ELSE r[1])
            \o rich_text_of(state, Tail(children))

render_paragraph(state, para) ==
    <<Block("paragraph", rich_text_of(state, para.children), None, <<>>)>>

render_quote(state, quote) ==
    <<Block("quote", rich_text_of(state, quote.children), None, <<>>)>>

render_footnote(state, footnote) ==
    <<Block("callout", rich_text_of(state, footnote.children), None, <<>>)>>

render_heading(state, heading) ==
    LET block_type == IF heading.depth = 1 THEN "heading_1"
                      ELSE IF heading.depth = 2 THEN "heading_2"
                      ELSE "heading_3"
    IN <<Block(block_type, rich_text_of(state, heading.children), None, <<>>)>>

\* State::render_code: one span with the whole value.
render_code(fenced) ==
    <<Block("code", <<RichText(fenced.value, None, None, None)>>, None, <<>>)>>

\* State::render_html: a code block with the whole value in one span.
render_html(html) ==
    <<Block("code", <<RichText(html.value, None, None, None)>>, None, <<>>)>>

render_math(math) ==
    <<[Block("equation", <<>>, None, <<>>) EXCEPT !.expression = math.value]>>

render_image(image) ==
    <<[Block("image", <<>>, None, <<>>) EXCEPT !.url = image.url]>>

\* State::render_image_ref: the image declared under the identifier, a
\* block of no type when there is none.
render_image_ref(state, imgref) ==
    IF imgref.identifier \in DOMAIN state.images
    THEN render_image(state.images[imgref.identifier])
    ELSE <<Block("none", <<>>, None, <<>>)>>

render_divider == <<Block("divider", <<>>, None, <<>>)>>

\* State::table_cell.
RECURSIVE table_cells(_, _)
table_cells(state, children) ==
    IF children = <<>> THEN <<>>
    ELSE (IF Head(children).type = "tableCell"
          THEN <<rich_text_of(state, Head(children).children)>> ELSE <<>>)
         \o table_cells(state, Tail(children))

table_row(state, row) ==
    <<Block("table_row", <<>>, None, table_cells(state, row.children))>>

\* State::new.
State_new == [list |-> "None", links |-> <<>>, images |-> <<>>]

\* The last index of nodelist whose node has the type and the key.
last_with(nodelist, type, field, key) ==
    LET hits == {i \in 1..Len(nodelist) :
                   nodelist[i].type = type /\ nodelist[i][field] = key}
    IN CHOOSE i \in hits : \A j \in hits : j <= i

\* The keys the nodes of the type declare.
keys_of(nodelist, type, field) ==
    {nodelist[i][field] : i \in {j \in 1..Len(nodelist) : nodelist[j].type = type}}

\* State::collect_definitions: the tables are built anew from the nodes of
\* the list (a later insert under a key replaces an earlier one) and
\* replace the tables of the state.
collect_definitions(state, nodelist) ==
    [state EXCEPT
       !.links = [k \in keys_of(nodelist, "definition", "identifier") |->
                    nodelist[last_with(nodelist, "definition", "identifier", k)].url],
       !.images = [k \in keys_of(nodelist, "image", "alt") |->
                     nodelist[last_with(nodelist, "image", "alt", k)]]]

\* What a &mut self method leaves: the blocks, the state after the call
\* and the visits (one per node handed to render_node by render_nodes, with
\* the tables then in the state and the tables of the node's own list).
Rendered(blocks, state, visits) ==
    [blocks |-> blocks, state |-> state, visits |-> visits]

Visit(state, node, declared) ==
    [type |-> node.type, links |-> state.links, images |-> state.images,
     declared |-> declared]

RECURSIVE render_nodes(_, _)
RECURSIVE render_each(_, _, _)
RECURSIVE render_node(_, _)
RECURSIVE render_list_item(_, _)

\* A mutant of longest: the fold starts at 0.
longest_or_zero(children) ==
    LET widths == {0} \cup {Len(children[i].cells) :
                              i \in {j \in 1..Len(children) :
                                       children[j].block_type = "table_row"}}
    IN CHOOSE w \in widths : \A v \in widths : v <= w

\* The widest row of the rendered children, 1 at least.
RECURSIVE longest(_)
longest(children) ==
    IF children = <<>> THEN 1
    ELSE LET acc == longest(SubSeq(children, 1, Len(children) - 1))
             xs == children[Len(children)]
         IN IF xs.block_type = "table_row" /\ Len(xs.cells) > acc
            THEN Len(xs.cells) ELSE acc

\* State::begin_table: the rows are rendered by the state itself.
begin_table(state, intable) ==
    LET r == render_nodes(state, intable.children)
        table == [Block("table", <<>>, Some(r.blocks), <<>>)
                    EXCEPT !.table_width = longest(r.blocks)]
    IN Rendered(<<table>>, r.state, r.visits)

\* A mutant of begin_list: the items are rendered by the state itself.
begin_list_shared(state, list) ==
    LET own == [state EXCEPT !.list = IF list.ordered THEN "Ordered" ELSE "Bulleted"]
        r == render_nodes(own, list.children)
    IN Rendered(r.blocks, r.state, r.visits)

\* State::begin_list: the items are rendered by a clone of the state whose
\* list variation is the list's; the state itself is left as it was.
begin_list(state, list) ==
    LET clone == [state EXCEPT !.list = IF list.ordered THEN "Ordered" ELSE "Bulleted"]
        r == render_nodes(clone, list.children)
    IN Rendered(r.blocks, state, r.visits)

\* State::render_list_item with State::rendered_bullet_li and
\* State::render_numbered_li: the other children are rendered by the state
\* itself.
render_list_item(state, item) ==
    LET block_type == IF state.list = "Ordered" THEN "numbered_list_item"
                      ELSE "bulleted_list_item"
    IN IF item.children = <<>>
       THEN Rendered(<<Block(block_type, <<>>, None, <<>>)>>, state, <<>>)
       ELSE LET first == Head(item.children)
                rich_text == IF first.type = "paragraph"
                             THEN rich_text_of(state, first.children) ELSE <<>>
                r == render_nodes(state, Tail(item.children))
            IN Rendered(<<Block(block_type, rich_text, Some(r.blocks), <<>>)>>,
                        r.state, r.visits)

\* State::render_node: the blocks of one node; unhandled kinds give none.
render_node(state, node) ==
    CASE node.type = "blockquote" -> Rendered(render_quote(state, node), state, <<>>)
      [] node.type = "footnoteDefinition" ->
           Rendered(render_footnote(state, node), state, <<>>)
      [] node.type = "list" -> begin_list(state, node)
      [] node.type = "html" -> Rendered(render_html(node), state, <<>>)
      [] node.type = "image" -> Rendered(render_image(node), state, <<>>)
      [] node.type = "imageReference" ->
           Rendered(render_image_ref(state, node), state, <<>>)
      [] node.type = "code" -> Rendered(render_code(node), state, <<>>)
      [] node.type = "math" -> Rendered(render_math(node), state, <<>>)
      [] node.type = "heading" -> Rendered(render_heading(state, node), state, <<>>)
      [] node.type = "table" -> begin_table(state, node)
      [] node.type = "tableRow" -> Rendered(table_row(state, node), state, <<>>)
      [] node.type = "thematicBreak" -> Rendered(render_divider, state, <<>>)
      [] node.type = "listItem" -> render_list_item(state, node)
      [] node.type = "paragraph" -> Rendered(render_paragraph(state, node), state, <<>>)
      [] OTHER -> Rendered(<<>>, state, <<>>)

\* The flat_map of State::render_nodes: render_node over the list, each
\* node by the state the one before left (the list is halved, which keeps
\* the evaluation shallow; the blocks come in order).
render_each(state, nodelist, declared) ==
    IF nodelist = <<>> THEN Rendered(<<>>, state, <<>>)
    ELSE IF Len(nodelist) = 1
    THEN LET r == render_node(state, nodelist[1])
         IN Rendered(r.blocks, r.state,
                     <<Visit(state, nodelist[1], declared)>> \o r.visits)
    ELSE LET h == Len(nodelist) \div 2
             a == render_each(state, SubSeq(nodelist, 1, h), declared)
             b == render_each(a.state, SubSeq(nodelist, h + 1, Len(nodelist)),
                              declared)
         IN Rendered(a.blocks \o b.blocks, b.state, a.visits \o b.visits)

\* State::render_nodes.
render_nodes(state, nodelist) ==
    LET collected == collect_definitions(state, nodelist)
    IN render_each(collected, nodelist,
                   [links |-> collected.links, images |-> collected.images])

\* State::render, for the children of the root.
render(state, children) == render_nodes(state, children)

\* convert: the blocks State::new() renders.
convert(input) == render(State_new, input).blocks

(***************************************************************************)
(* The documents checked.                                                  *)
(***************************************************************************)
ShapeNames ==
    {"para", "definition", "quote", "flat", "shallow", "deep", "deeper",
     "table", "listtable"}

\* The catalogue: one top-level node of each shape, its text under path p.
Shape(name, p) ==
    CASE name = "para" -> MdParagraph(p)
      [] name = "definition" -> MdDefinition(p, p)
      [] name = "quote" -> MdBlockQuote(p)
      [] name = "flat" ->
           MdList(FALSE, <<MdListItem(p \o <<1>>, <<>>), MdListItem(p \o <<2>>, <<>>)>>)
      [] name = "shallow" ->
           MdList(TRUE, <<MdListItem(p \o <<1>>,
               <<MdList(TRUE, <<MdListItem(p \o <<1, 1>>, <<>>),
                               MdListItem(p \o <<1, 2>>, <<>>)>>)>>)>>)
      [] name = "deep" ->
           MdList(FALSE,
             <<MdListItem(p \o <<1>>,
                 <<MdParagraph(p \o <<1, 1>>),
                   MdList(FALSE,
                     <<MdListItem(p \o <<1, 2>>,
                         <<MdList(FALSE, <<MdListItem(p \o <<1, 2, 1>>, <<>>)>>)>>),
                       MdListItem(p \o <<1, 3>>, <<>>)>>),
                   MdParagraph(p \o <<1, 4>>)>>),
               MdListItem(p \o <<2>>, <<>>)>>)
      [] name = "deeper" ->
           MdList(FALSE,
             <<MdListItem(p \o <<1>>,
                 <<MdList(TRUE,
                     <<MdListItem(p \o <<1, 1>>,
                         <<MdList(FALSE,
                             <<MdListItem(p \o <<1, 1, 1>>,
                                 <<MdList(FALSE,
                                     <<MdListItem(p \o <<1, 1, 1, 1>>, <<>>)>>)>>)>>)>>),
                       MdListItem(p \o <<1, 2>>,
                         <<MdList(FALSE, <<MdListItem(p \o <<1, 2, 1>>, <<>>)>>)>>)>>)>>)>>)
      [] name = "table" -> MdTable(p)
      [] name = "listtable" ->
           MdList(FALSE, <<MdListItem(p \o <<1>>, <<MdTable(p \o <<1, 1>>)>>)>>)

\* n paragraphs, the first under path <<from + 1>>.
Pad(from, n) == [i \in 1..n |-> MdParagraph(<<from + i>>)]

\* A list item with n paragraphs, a nested list two levels deep and a
\* last paragraph: a deep block with more than n children.
Wide(p, n) ==
    MdList(FALSE,
      <<MdListItem(p,
          [i \in 1..n |-> MdParagraph(p \o <<i>>)]
          \o <<MdList(FALSE,
                 <<MdListItem(p \o <<n + 1>>,
                     <<MdList(FALSE, <<MdListItem(p \o <<n + 1, 1>>, <<>>)>>)>>)>>),
               MdParagraph(p \o <<n + 2>>)>>)>>)

\* A list item with n paragraphs below its own: a block with n children
\* that have none.
Broad(p, n) ==
    MdList(FALSE, <<MdListItem(p, [i \in 1..n |-> MdParagraph(p \o <<i>>)])>>)

RECURSIVE MidDocs(_)
MidDocs(n) ==
    IF n = 0 THEN {<<>>}
    ELSE LET shorter == MidDocs(n - 1)
         IN shorter \cup
            {d \o <<Shape(s, <<Len(d) + 1>>)>> :
                d \in {x \in shorter : Len(x) = n - 1}, s \in ShapeNames}

PadSizes ==
    {<<0, 1>>, <<BatchLimit - 1, 0>>, <<BatchLimit - 1, 1>>, <<BatchLimit, 1>>,
     <<2 * BatchLimit, 1>>}

LongDocs ==
    {Pad(0, ps[1]) \o <<Shape(s, <<ps[1] + 1>>)>> \o Pad(ps[1] + 1, ps[2]) :
        ps \in PadSizes, s \in ShapeNames}
    \cup {<<Wide(<<1>>, n)>> : n \in {BatchLimit - 1, BatchLimit}}
    \cup {<<Broad(<<1>>, n)>> : n \in {BatchLimit, BatchLimit + 1}}

Docs == MidDocs(MaxMid) \cup LongDocs

(***************************************************************************)
(* The remote service, as the protocol surface the planner relies on: an   *)
(* append stores the batch under its parent immediately after the anchor   *)
(* (at the end when there is none) and assigns one fresh id per block in   *)
(* batch order, then ids to the nested children it carried.                *)
(***************************************************************************)
RemoteBlock(b) ==
    [block_type |-> b.block_type, rich_text |-> b.rich_text,
     cells |-> b.cells, kids |-> <<>>]

\* The index of id in seq, 0 when absent.
IndexOf(seq, id) ==
    IF \E i \in 1..Len(seq) : seq[i] = id
    THEN CHOOSE i \in 1..Len(seq) : seq[i] = id
    ELSE 0

InsertAfter(kids, after, ids) ==
    IF after = None \/ IndexOf(kids, after[1]) = 0 THEN kids \o ids
    ELSE LET k == IndexOf(kids, after[1])
         IN SubSeq(kids, 1, k) \o ids \o SubSeq(kids, k + 1, Len(kids))

RECURSIVE StoreBatch(_, _, _, _)
RECURSIVE StoreNested(_, _, _, _)

\* st = [blocks, next]: the stored blocks by id and the next fresh id.
StoreBatch(st, parent, after, batch) ==
    LET n == Len(batch)
        ids == [i \in 1..n |-> st.next + i - 1]
        new == {ids[i] : i \in 1..n}
        blocks == [id \in DOMAIN st.blocks \cup new |->
                     IF id \in new THEN RemoteBlock(batch[id - st.next + 1])
                     ELSE IF id = parent
                          THEN [st.blocks[id] EXCEPT !.kids = InsertAfter(@, after, ids)]
                          ELSE st.blocks[id]]
    IN StoreNested([blocks |-> blocks, next |-> st.next + n], batch, ids, 1)

StoreNested(st, batch, ids, i) ==
    LET nested == {j \in i..Len(batch) :
                     batch[j].children # None /\ batch[j].children[1] # <<>>}
    IN IF nested = {} THEN st
       ELSE LET j == CHOOSE k \in nested : \A m \in nested : k <= m
            IN StoreNested(StoreBatch(st, ids[j], None, batch[j].children[1]),
                           batch, ids, j + 1)

\* The ids an append returns: one per submitted block, in batch order.
AssignedIds(next, batch) == [i \in 1..Len(batch) |-> next + i - 1]

\* The id of the page the caller names as the new page's parent.
WorkspaceParent == 0

PageBlock == [block_type |-> "page", rich_text |-> <<>>, cells |-> <<>>, kids |-> <<>>]

(***************************************************************************)
(* The write executor (retries.rs).                                        *)
(***************************************************************************)
StatusCodes == {400, 409}

NoResponse == [kind |-> "none", status |-> 0]

NoRequest == [parent_id |-> 0, children |-> <<>>, after |-> None]

ExecIdle ==
    [pc |-> "idle", fn |-> "none", parent_id |-> 0, slice |-> <<>>, after |-> None,
     retry |-> 0, error |-> "none", created |-> <<>>,
     request |-> NoRequest, response |-> NoResponse,
     calls |-> 0, delays |-> 0, sent |-> {}]

\* A call of do_create(notion, request, retry).
CallCreate(parent, retry) ==
    [ExecIdle EXCEPT !.pc = "entry", !.fn = "create", !.parent_id = parent,
                     !.retry = retry]

\* A call of do_append(notion, parent_id, slice, after, retry).
CallAppend(parent_id, slice, after, retry) ==
    [ExecIdle EXCEPT !.pc = "entry", !.fn = "append", !.parent_id = parent_id,
                     !.slice = slice, !.after = after, !.retry = retry]

\* retries.rs:22 and :54, let next_retry = retry + 1, on a u8.
next_retry(retry) == (retry + 1) % 256

\* Mutant: the empty slice is not short-circuited.
slice_is_empty_never(slice) == FALSE

\* retries.rs:55, slice.is_empty().
slice_is_empty(slice) == slice = <<>>

\* Mutant: one retry more than the ceiling.
should_retry_once_more(status, retry) == status = 409 /\ retry <= MAX_RETRIES

\* Mutant: every error status is retried.
should_retry_any_status(status, retry) == retry < MAX_RETRIES

\* retries.rs:27 and :69, the condition of the retry.
should_retry(status, retry) == status = 409 /\ retry < MAX_RETRIES

\* retries.rs:61-64, the request of one attempt.
AppendRequest(call) ==
    [parent_id |-> call.parent_id, children |-> call.slice, after |-> call.after]

\* Mutant: the retry forgets the anchor.
RetryCall_without_anchor(call) ==
    [call EXCEPT !.pc = "entry", !.retry = next_retry(call.retry), !.after = None]

\* retries.rs:71 and :29, the recursive call that retries.
RetryCall(call) == [call EXCEPT !.pc = "entry", !.retry = next_retry(call.retry)]

\* The call after it returned: error is "none" for Ok, else the status
\* code or "client".
Returned(call, error, created) ==
    [call EXCEPT !.pc = "returned", !.error = error, !.created = created]

\* The call with the response of its attempt noted.
Got(call, kind, status) ==
    [call EXCEPT !.response = [kind |-> kind, status |-> status]]

(***************************************************************************)
(* The planner (lib.rs, PageMaker).                                        *)
(***************************************************************************)
SplitKinds == {"bulleted_list_item", "numbered_list_item", "paragraph", "quote"}

\* The match of lib.rs:147-153 and :821-827: the children field of the
\* block types the planner looks into.
maybe_kids(block) ==
    IF block.block_type \in SplitKinds THEN block.children ELSE None

RECURSIVE block_has_deep_children(_, _)
block_has_deep_children(nesting, block) ==
    LET kids == maybe_kids(block)
    IN IF kids = None THEN FALSE
       ELSE IF kids[1] = <<>> THEN FALSE
       ELSE IF nesting = MAX_NESTING THEN TRUE
       ELSE \E i \in 1..Len(kids[1]) :
               block_has_deep_children(nesting + 1, kids[1][i])

\* split_block_from_children: the block without its children, and them.
split_block_from_children(block) ==
    LET kids == maybe_kids(block)
    IN IF kids = None \/ kids[1] = <<>>
       THEN [copy |-> block, maybe_children |-> None]
       ELSE [copy |-> [block EXCEPT !.children = None],
             maybe_children |-> Some(kids[1])]

\* Mutant: the batch is flushed one block late.
tranche_full_late(current_tranche) == Len(current_tranche) = BatchLimit + 1

\* lib.rs:128, the batch is full.
tranche_full(current_tranche) == Len(current_tranche) = BatchLimit

\* Mutant: the id of the first created block is taken.
head_id_first(created, parent_id) ==
    IF created # <<>> THEN Head(created) ELSE parent_id

\* lib.rs:108-117, the id of the last created block, else the parent's.
head_id_of(created, parent_id) ==
    IF created # <<>> THEN Last(created) ELSE parent_id

\* Mutant: the anchor is not advanced.
after_flush_stale(after, created) == after

\* lib.rs:131-133, the anchor after a full batch was appended.
after_flush(after, created) ==
    IF created # <<>> THEN Some(Last(created)) ELSE after

\* Mutant: the rest of the queue is appended without an anchor.
rest_anchor_none(head_id) == None

\* lib.rs:123, the anchor of the call for the rest of the queue.
rest_anchor(head_id) == Some(head_id)

\* lib.rs:119, the anchor of the call for the stripped children.
children_anchor == None

\* Mutant: the empty result is not checked.
no_blocks_never(blocks) == FALSE

\* lib.rs:58, blocks.is_empty().
no_blocks(blocks) == blocks = <<>>

\* Mutant: the error is dropped.
propagates_never(error) == FALSE

\* The ? operator on the Results awaited in append_children (lib.rs:106,
\* :119, :123, :130, :140): TRUE when the error returns from the caller.
propagates(error) == error # "none"

\* The ? operator on the Result of do_create (lib.rs:74).
create_failed(error) == error # "none"

\* A new activation of append_children(parent_id, after_id, to_be_appended);
\* borrowed: the queue is the caller's (&mut), handed back on return.
Frame(parent_id, after_id, to_be_appended, borrowed) ==
    [parent_id |-> parent_id, after |-> after_id,
     to_be_appended |-> to_be_appended, current_tranche |-> <<>>,
     pc |-> "loop", head_id |-> 0, maybe_children |-> None,
     borrowed |-> borrowed]

VARIABLES
    doc,        \* the document given to create_page
    mp,         \* make_page: its position, blocks, page id and result
    stack,      \* the activations of append_children, innermost last
    ret,        \* the Result a finished append_children hands to its caller
    exec,       \* the current call of do_create / do_append
    remote,     \* the remote service: [blocks, next]
    writes,     \* the appends the remote applied, in order
    conflicted, \* whether some attempt of an append got a conflict
    inflight,   \* the writes called and not yet returned
    txt,        \* a call of split_text_at_api_limit
    rend,       \* a call of convert
    mig,        \* a run of Migrator::migrate
    lck,        \* the branches of a stream at the lock of the url map
    cch         \* a run of Cache::cache_workspace

vars == <<doc, mp, stack, ret, exec, remote, writes, conflicted, inflight,
          txt, rend, mig, lck, cch>>

\* What a run of create_page leaves alone.
others == <<txt, rend, mig, lck, cch>>

\* What the runs of the other functions leave alone.
page_vars == <<doc, mp, stack, ret, exec, remote, writes, conflicted, inflight>>

TxtIdle == [pc |-> "idle", content |-> <<>>, style |-> "default", results |-> <<>>]

RendIdle == [pc |-> "idle", input |-> <<>>, blocks |-> <<>>, visits |-> <<>>]

MigIdle ==
    [pc |-> "idle", ws |-> [children |-> <<>>, pages |-> <<>>], tasks |-> <<>>,
     urlmap |-> <<>>, next |-> 1, appended |-> <<>>]

LckIdle ==
    [pc |-> "idle", map |-> <<>>, holder |-> <<>>, polled |-> <<>>, next |-> 1,
     br |-> <<>>]

CchIdle ==
    [pc |-> "idle", pages |-> <<>>, cached |-> {}, pending |-> {}, stack |-> <<>>,
     fetched |-> <<>>, served |-> {}, refused |-> {},
     ret |-> [id |-> 0, ok |-> FALSE]]

RemoteInit == [blocks |-> (WorkspaceParent :> PageBlock), next |-> 1]

MpInit == [pc |-> "start", blocks |-> <<>>, page_id |-> 0, result |-> "none"]

\* The slices an outside caller of do_append passes.
ExtSlices == {convert(Pad(0, n)) : n \in 0..MaxSlice}

InitPage ==
    /\ doc \in Docs
    /\ mp = MpInit
    /\ exec = ExecIdle

InitCall ==
    /\ doc = <<>>
    /\ mp = [MpInit EXCEPT !.pc = "ext"]
    /\ exec \in {CallCreate(WorkspaceParent, 0)}
               \cup {CallAppend(WorkspaceParent, s, None, 0) : s \in ExtSlices}

Init ==
    /\ InitPage \/ InitCall
    /\ stack = <<>>
    /\ ret = "none"
    /\ remote = RemoteInit
    /\ writes = <<>>
    /\ conflicted = FALSE
    /\ inflight = IF exec.pc = "idle" THEN 0 ELSE 1
    /\ txt = TxtIdle
    /\ rend = RendIdle
    /\ mig = MigIdle
    /\ lck = LckIdle
    /\ cch = CchIdle

Top == stack[Len(stack)]

\* The stack with its innermost activation replaced by f.
SetTop(f) == [stack EXCEPT ![Len(stack)] = f]

\* The stack after its innermost activation returned: a borrowed queue is
\* the caller's own, so the caller sees what the callee left of it.
PopFrame ==
    LET rest == SubSeq(stack, 1, Len(stack) - 1)
    IN IF Top.borrowed /\ rest # <<>>
       THEN [rest EXCEPT ![Len(rest)].to_be_appended = Top.to_be_appended]
       ELSE rest

\* append_children runs: its innermost activation is at the place its pc
\* names, which is an await (lib.rs:106, :119, :123, :130, :140) while a
\* call it made is under way.
Planning == mp.pc = "await78" /\ stack # <<>> /\ ret = "none"

\* The writes in flight: one more with every call of do_create / do_append
\* from the planner, one less with every return of the executor.
Track ==
    inflight' = inflight
                + (IF exec' # exec /\ exec'.pc = "entry" /\ exec'.retry = 0
                   THEN 1 ELSE 0)
                - (IF exec.pc \notin {"idle", "returned"} /\ exec'.pc = "returned"
                   THEN 1 ELSE 0)

\* make_page, lib.rs:57-74.
MakePageStart ==
    /\ mp.pc = "start"
    /\ LET blocks == convert(doc)
       IN IF no_blocks(blocks)
          THEN /\ mp' = [mp EXCEPT !.pc = "done", !.result = "empty"]
               /\ exec' = exec
          ELSE /\ mp' = [mp EXCEPT !.pc = "await74", !.blocks = blocks]
               /\ exec' = CallCreate(WorkspaceParent, 0)
    /\ UNCHANGED <<doc, stack, ret, remote, writes, conflicted, others>>
    /\ Track

\* make_page, lib.rs:74-79: the page is there, its children follow.
MakePageCreated ==
    /\ mp.pc = "await74"
    /\ exec.pc = "returned"
    /\ IF create_failed(exec.error)
       THEN /\ mp' = [mp EXCEPT !.pc = "done", !.result = exec.error]
            /\ stack' = stack
       ELSE /\ mp' = [mp EXCEPT !.pc = "await78", !.page_id = exec.created[1]]
            /\ stack' = <<Frame(exec.created[1], None, mp.blocks, FALSE)>>
    /\ exec' = ExecIdle
    /\ UNCHANGED <<doc, ret, remote, writes, conflicted, others>>
    /\ Track

\* make_page, lib.rs:78-81.
MakePageFinish ==
    /\ mp.pc = "await78"
    /\ stack = <<>>
    /\ ret # "none"
    /\ mp' = [mp EXCEPT !.pc = "done", !.result = ret]
    /\ UNCHANGED <<doc, stack, ret, exec, remote, writes, conflicted, others>>
    /\ Track

\* A mutant of AfterBranch: the call of do_append is not awaited, the loop
\* goes on with an empty batch while the write is in flight.
AfterBranch_without_await(f) ==
    IF tranche_full(f.current_tranche)
    THEN /\ stack' = SetTop([f EXCEPT !.pc = "loop", !.current_tranche = <<>>])
         /\ exec' = CallAppend(f.parent_id, f.current_tranche, f.after, 0)
    ELSE /\ stack' = SetTop([f EXCEPT !.pc = "loop"])
         /\ exec' = exec

\* lib.rs:128-135 as far as the call of do_append: after the branch.
AfterBranch(f) ==
    IF tranche_full(f.current_tranche)
    THEN /\ stack' = SetTop([f EXCEPT !.pc = "await130"])
         /\ exec' = CallAppend(f.parent_id, f.current_tranche, f.after, 0)
    ELSE /\ stack' = SetTop([f EXCEPT !.pc = "loop"])
         /\ exec' = exec

\* lib.rs:96-106 and :124-130: pop the head of the queue.
PopBlock ==
    /\ Planning
    /\ Top.pc = "loop"
    /\ Top.to_be_appended # <<>>
    /\ LET head == Head(Top.to_be_appended)
           popped == [Top EXCEPT !.to_be_appended = Tail(@)]
       IN IF block_has_deep_children(0, head)
          THEN LET split == split_block_from_children(head)
                   tranche == Append(Top.current_tranche, split.copy)
               IN /\ stack' = SetTop([popped EXCEPT
                                        !.current_tranche = tranche,
                                        !.maybe_children = split.maybe_children,
                                        !.pc = "await106"])
                  /\ exec' = CallAppend(Top.parent_id, tranche, Top.after, 0)
          ELSE AfterBranch([popped EXCEPT !.current_tranche = Append(@, head)])
    /\ UNCHANGED <<doc, mp, ret, remote, writes, conflicted, others>>
    /\ Track

\* lib.rs:106-123: the deep block is there; its children come next, or the
\* rest of the queue when it has none.
Resume106 ==
    /\ mp.pc = "await78" /\ stack # <<>>
    /\ Top.pc = "await106"
    /\ exec.pc = "returned"
    /\ IF propagates(exec.error)
       THEN /\ stack' = PopFrame
            /\ ret' = exec.error
       ELSE LET head_id == head_id_of(exec.created, Top.parent_id)
                f == [Top EXCEPT !.head_id = head_id]
            IN /\ ret' = ret
               /\ IF f.maybe_children # None
                  THEN stack' = Append(SetTop([f EXCEPT !.pc = "await119"]),
                                       Frame(head_id, children_anchor,
                                             f.maybe_children[1], FALSE))
                  ELSE stack' = Append(SetTop([f EXCEPT !.current_tranche = <<>>,
                                                        !.pc = "await123"]),
                                       Frame(f.parent_id, rest_anchor(head_id),
                                             f.to_be_appended, TRUE))
    /\ exec' = ExecIdle
    /\ UNCHANGED <<doc, mp, remote, writes, conflicted, others>>
    /\ Track

\* lib.rs:119-123: the children are there; the rest of the queue follows.
Resume119 ==
    /\ mp.pc = "await78" /\ stack # <<>>
    /\ Top.pc = "await119"
    /\ exec.pc = "idle"
    /\ ret # "none"
    /\ IF propagates(IF ret = "ok" THEN "none" ELSE ret)
       THEN /\ stack' = PopFrame
            /\ ret' = ret
       ELSE /\ stack' = Append(SetTop([Top EXCEPT !.current_tranche = <<>>,
                                                  !.pc = "await123"]),
                               Frame(Top.parent_id, rest_anchor(Top.head_id),
                                     Top.to_be_appended, TRUE))
            /\ ret' = "none"
    /\ UNCHANGED <<doc, mp, exec, remote, writes, conflicted, others>>
    /\ Track

\* lib.rs:123-135: the rest of the queue is there.
Resume123 ==
    /\ mp.pc = "await78" /\ stack # <<>>
    /\ Top.pc = "await123"
    /\ exec.pc = "idle"
    /\ ret # "none"
    /\ IF propagates(IF ret = "ok" THEN "none" ELSE ret)
       THEN /\ stack' = PopFrame
            /\ ret' = ret
            /\ exec' = exec
       ELSE /\ AfterBranch(Top)
            /\ ret' = "none"
    /\ UNCHANGED <<doc, mp, remote, writes, conflicted, others>>
    /\ Track

\* lib.rs:129-135: the full batch is there.
Resume130 ==
    /\ mp.pc = "await78" /\ stack # <<>>
    /\ Top.pc = "await130"
    /\ exec.pc = "returned"
    /\ IF propagates(exec.error)
       THEN /\ stack' = PopFrame
            /\ ret' = exec.error
       ELSE /\ stack' = SetTop([Top EXCEPT
                                  !.after = after_flush(Top.after, exec.created),
                                  !.current_tranche = <<>>,
                                  !.pc = "loop"])
            /\ ret' = ret
    /\ exec' = ExecIdle
    /\ UNCHANGED <<doc, mp, remote, writes, conflicted, others>>
    /\ Track

\* lib.rs:139-140: the queue is empty, the last batch goes out.
FinalFlush ==
    /\ Planning
    /\ Top.pc = "loop"
    /\ Top.to_be_appended = <<>>
    /\ Top.current_tranche # <<>>
    /\ stack' = SetTop([Top EXCEPT !.pc = "await140"])
    /\ exec' = CallAppend(Top.parent_id, Top.current_tranche, Top.after, 0)
    /\ UNCHANGED <<doc, mp, ret, remote, writes, conflicted, others>>
    /\ Track

\* lib.rs:140-143: the last batch is there.
Resume140 ==
    /\ mp.pc = "await78" /\ stack # <<>>
    /\ Top.pc = "await140"
    /\ exec.pc = "returned"
    /\ stack' = PopFrame
    /\ ret' = IF propagates(exec.error) THEN exec.error ELSE "ok"
    /\ exec' = ExecIdle
    /\ UNCHANGED <<doc, mp, remote, writes, conflicted, others>>
    /\ Track

\* lib.rs:139-143: nothing is left to append.
ReturnOk ==
    /\ Planning
    /\ Top.pc = "loop"
    /\ Top.to_be_appended = <<>>
    /\ Top.current_tranche = <<>>
    /\ stack' = PopFrame
    /\ ret' = "ok"
    /\ UNCHANGED <<doc, mp, exec, remote, writes, conflicted, others>>
    /\ Track

\* do_append, retries.rs:54-60: nothing to send, or the delay begins.
DoAppendEntry ==
    /\ exec.pc = "entry"
    /\ exec.fn = "append"
    /\ IF slice_is_empty(exec.slice)
       THEN exec' = Returned(exec, "none", <<>>)
       ELSE exec' = [exec EXCEPT !.pc = "sleep", !.delays = @ + 1]
    /\ UNCHANGED <<doc, mp, stack, ret, remote, writes, conflicted, others>>
    /\ Track

\* do_append, retries.rs:60-65: the delay is over, the request goes out.
DoAppendSend ==
    /\ exec.pc = "sleep"
    /\ exec' = [exec EXCEPT !.pc = "request", !.calls = @ + 1,
                            !.request = AppendRequest(exec),
                            !.sent = @ \cup {AppendRequest(exec)}]
    /\ UNCHANGED <<doc, mp, stack, ret, remote, writes, conflicted, others>>
    /\ Track

\* A mutant of DoCreateEntry: the create request carries the blocks.
DoCreateEntry_with_children ==
    /\ exec.pc = "entry"
    /\ exec.fn = "create"
    /\ exec' = [exec EXCEPT !.pc = "request", !.calls = @ + 1,
                            !.request = [NoRequest EXCEPT !.parent_id = exec.parent_id,
                                                          !.children = mp.blocks]]
    /\ UNCHANGED <<doc, mp, stack, ret, remote, writes, conflicted, others>>
    /\ Track

\* do_create, retries.rs:22-23: the request goes out.
DoCreateEntry ==
    /\ exec.pc = "entry"
    /\ exec.fn = "create"
    /\ exec' = [exec EXCEPT !.pc = "request", !.calls = @ + 1,
                            !.request = [NoRequest EXCEPT !.parent_id = exec.parent_id]]
    /\ UNCHANGED <<doc, mp, stack, ret, remote, writes, conflicted, others>>
    /\ Track

\* retries.rs:24 and :66: the remote applied the write.
RespondOk ==
    /\ exec.pc = "request"
    /\ IF exec.fn = "create"
       THEN /\ remote' = StoreBatch(remote, exec.request.parent_id, None,
                                    <<Block("page", <<>>, None, <<>>)>>)
            /\ exec' = Returned(Got(exec, "ok", 200), "none", <<remote.next>>)
            /\ writes' = writes
       ELSE LET req == exec.request
            IN /\ remote' = StoreBatch(remote, req.parent_id, req.after, req.children)
               /\ exec' = Returned(Got(exec, "ok", 200), "none",
                                   AssignedIds(remote.next, req.children))
               /\ writes' = Append(writes,
                               [parent_id |-> req.parent_id, after |-> req.after,
                                ids |-> AssignedIds(remote.next, req.children)])
    /\ UNCHANGED <<doc, mp, stack, ret, conflicted, others>>
    /\ Track

\* retries.rs:26-33 and :68-75: the remote answered with an error status.
RespondStatus ==
    /\ exec.pc = "request"
    /\ \E s \in StatusCodes :
         /\ IF should_retry(s, exec.retry)
            THEN exec' = RetryCall(Got(exec, "status", s))
            ELSE exec' = Returned(Got(exec, "status", s), ToString(s), <<>>)
         /\ conflicted' = (conflicted \/ (s = 409 /\ exec.fn = "append"))
    /\ UNCHANGED <<doc, mp, stack, ret, remote, writes, others>>
    /\ Track

\* retries.rs:34 and :76: the client failed otherwise.
RespondClientError ==
    /\ exec.pc = "request"
    /\ exec' = Returned(Got(exec, "client", 0), "client", <<>>)
    /\ UNCHANGED <<doc, mp, stack, ret, remote, writes, conflicted, others>>
    /\ Track

Next ==
    \/ MakePageStart
    \/ MakePageCreated
    \/ MakePageFinish
    \/ PopBlock
    \/ Resume106
    \/ Resume119
    \/ Resume123
    \/ Resume130
    \/ FinalFlush
    \/ Resume140
    \/ ReturnOk
    \/ DoAppendEntry
    \/ DoAppendSend
    \/ DoCreateEntry
    \/ RespondOk
    \/ RespondStatus
    \/ RespondClientError

Spec == Init /\ [][Next]_vars

\* No run of create_page, no call of the executor.
PageIdle ==
    /\ doc = <<>>
    /\ mp = [MpInit EXCEPT !.pc = "idle"]
    /\ stack = <<>>
    /\ ret = "none"
    /\ exec = ExecIdle
    /\ remote = RemoteInit
    /\ writes = <<>>
    /\ conflicted = FALSE
    /\ inflight = 0

(***************************************************************************)
(* Calls of split_text_at_api_limit on its own.                            *)
(***************************************************************************)
\* n ASCII bytes, not all the same.
Ascii(n) == [i \in 1..n |-> 97 + (i % 26)]

\* The UTF-8 bytes of a character of two, three and four bytes.
WideChars == {<<195, 169>>, <<226, 130, 172>>, <<240, 159, 152, 128>>}

\* k times the character c.
Repeat(c, k) == [i \in 1..(k * Len(c)) |-> c[((i - 1) % Len(c)) + 1]]

PreSizes ==
    {0} \cup {TextLimit - d : d \in 0..4} \cup {2 * TextLimit - d : d \in 0..1}

PostSizes == {0, 1, TextLimit}

\* ASCII, some wide characters, ASCII; and texts of wide characters only.
Texts ==
    {Ascii(n) \o Repeat(c, k) \o Ascii(m) :
        n \in PreSizes, c \in WideChars, k \in 0..MaxChars, m \in PostSizes}
    \cup {Repeat(c, k) : c \in WideChars,
                         k \in {(TextLimit \div 4) + 1, TextLimit + 1}}

\* Annotations, by the one field that is set.
Styles == {"default", "bold"}

InitSplit ==
    /\ txt \in {[TxtIdle EXCEPT !.pc = "call", !.content = c, !.style = a] :
                   c \in Texts, a \in Styles}
    /\ rend = RendIdle
    /\ mig = MigIdle
    /\ lck = LckIdle
    /\ cch = CchIdle
    /\ PageIdle

SplitText ==
    /\ txt.pc = "call"
    /\ txt' = [txt EXCEPT !.pc = "done",
                          !.results = split_text_at_api_limit(txt.content, txt.style)]
    /\ UNCHANGED <<page_vars, rend, mig, lck, cch>>

NextSplit == SplitText

SpecSplit == InitSplit /\ [][NextSplit]_vars

(***************************************************************************)
(* Calls of convert on its own, on documents with every source of a text   *)
(* span, on lists of siblings with definitions and references, on lists    *)
(* whose first item has children of every kind, and on tables.             *)
(***************************************************************************)
SpanKinds ==
    {"text", "strong", "emphasis", "delete", "inlineCode", "inlineMath", "link",
     "linkReference", "footnoteReference", "code", "html", "heading", "quote"}

\* A document whose one text, of n bytes, reaches the output through kind.
SpanDoc(kind, n) ==
    LET t == Ascii(n)
        inline ==
          CASE kind \in {"text", "heading", "quote"} -> MdText(t)
            [] kind \in {"strong", "emphasis", "delete"} -> MdParent(kind, <<MdText(t)>>)
            [] kind \in {"inlineCode", "inlineMath"} -> MdLiteral(kind, t)
            [] kind = "link" -> MdLink(<<104>>, <<MdText(t)>>)
            [] kind = "linkReference" -> MdLinkReference(<<97>>, <<MdText(t)>>)
            [] kind = "footnoteReference" -> MdFootnoteReference(t)
            [] OTHER -> MdText(<<>>)
    IN CASE kind \in {"code", "html"} -> <<MdLiteral(kind, t)>>
         [] kind = "heading" -> <<MdHeading(2, <<inline>>)>>
         [] kind = "quote" -> <<MdParent("blockquote", <<inline>>)>>
         [] OTHER -> <<MdParent("paragraph", <<inline>>)>>

SpanSizes == {1, TextLimit, TextLimit + 1}

SiblingKinds == {"ref", "imgref", "def", "image", "table", "list", "nested", "rule"}

\* The identifiers a and b, and the urls declared for them at the top (u)
\* and inside a list item (v).
IdA == <<97>>

IdB == <<98>>

UrlTop == <<117>>

UrlNested == <<118>>

\* One sibling of each kind; p is the text of its first paragraph.
Sibling(kind, p) ==
    CASE kind = "ref" ->
           MdParent("paragraph", <<MdLinkReference(IdA, <<MdText(p)>>)>>)
      [] kind = "imgref" -> MdImageReference(IdB)
      [] kind = "def" -> MdDefinition(IdB, UrlTop)
      [] kind = "image" -> MdImage(IdB, UrlTop)
      [] kind = "table" -> MdTable(p)
      [] kind = "list" ->
           MdList(FALSE, <<MdListItem(p \o <<1>>, <<>>), MdListItem(p \o <<2>>, <<>>)>>)
      [] kind = "nested" ->
           MdList(TRUE,
             <<MdListItem(p \o <<1>>,
                 <<MdDefinition(IdA, UrlNested),
                   MdParent("paragraph",
                            <<MdLinkReference(IdA, <<MdText(p \o <<1, 1>>)>>)>>)>>),
               MdNode("listItem", <<>>,
                      <<MdParent("paragraph",
                                 <<MdLinkReference(IdA, <<MdText(p \o <<2>>)>>)>>)>>,
                      FALSE)>>)
      [] kind = "rule" -> MdParent("thematicBreak", <<>>)

\* The lists of at most n siblings.
RECURSIVE SiblingLists(_)
SiblingLists(n) ==
    IF n = 0 THEN {<<>>}
    ELSE LET shorter == SiblingLists(n - 1)
         IN shorter \cup
            {d \o <<Sibling(k, <<Len(d) + 1>>)>> :
                d \in {x \in shorter : Len(x) = n - 1}, k \in SiblingKinds}

\* A definition of a at the top, then the siblings.
ScopeDocs == {<<MdDefinition(IdA, UrlTop)>> \o d : d \in SiblingLists(MaxSiblings)}

\* The kinds of a child of a list item; the definition is of b, which no
\* reference of an item names.
ChildKinds == {"paragraph", "code", "definition", "list", "rule"}

\* One child of an item of a list; a list child is of the other variation
\* and has a list of that variation below it, whose item has a paragraph
\* of its own.
ItemChild(kind, p, ordered) ==
    CASE kind = "paragraph" -> MdParagraph(p)
      [] kind = "code" -> MdLiteral("code", p)
      [] kind = "definition" -> MdDefinition(IdB, UrlTop)
      [] kind = "list" ->
           MdList(~ordered,
             <<MdListItem(p \o <<1>>,
                 <<MdList(~ordered,
                     <<MdListItem(p \o <<1, 1>>,
                         <<MdParagraph(p \o <<1, 1, 1>>)>>)>>)>>)>>)
      [] kind = "rule" -> MdParent("thematicBreak", <<>>)

\* The lists of at most n children of an item.
RECURSIVE ChildLists(_, _)
ChildLists(n, ordered) ==
    IF n = 0 THEN {<<>>}
    ELSE LET shorter == ChildLists(n - 1, ordered)
         IN shorter \cup
            {d \o <<ItemChild(k, <<1, Len(d) + 1>>, ordered)>> :
                d \in {x \in shorter : Len(x) = n - 1}, k \in ChildKinds}

\* A list of two items: the first with the children, the second with its
\* paragraph alone.
ItemDocs ==
    UNION {{<<MdList(ordered, <<MdNode("listItem", <<>>, cs, FALSE),
                                MdListItem(<<2>>, <<>>)>>)>> :
              cs \in ChildLists(MaxSiblings, ordered)} : ordered \in BOOLEAN}

\* A row of n cells.
RowOf(p, n) ==
    MdNode("tableRow", <<>>, [c \in 1..n |-> MdTableCell(p \o <<c>>)], FALSE)

\* The tables of at most MaxSiblings rows of at most MaxCells cells.
TableDocs ==
    {<<MdNode("table", <<>>, [r \in 1..Len(ws) |-> RowOf(<<r>>, ws[r])], FALSE)>> :
        ws \in UNION {[1..n -> 0..MaxCells] : n \in 0..MaxSiblings}}

RenderDocs ==
    {SpanDoc(k, n) : k \in SpanKinds, n \in SpanSizes} \cup ScopeDocs
    \cup ItemDocs \cup TableDocs

InitRender ==
    /\ rend \in {[RendIdle EXCEPT !.pc = "call", !.input = d] : d \in RenderDocs}
    /\ txt = TxtIdle
    /\ mig = MigIdle
    /\ lck = LckIdle
    /\ cch = CchIdle
    /\ PageIdle

\* convert(input), with the visits of the render kept beside the blocks.
Render ==
    /\ rend.pc = "call"
    /\ LET r == render(State_new, rend.input)
       IN rend' = [rend EXCEPT !.pc = "done", !.blocks = convert(rend.input),
                              !.visits = r.visits]
    /\ UNCHANGED <<page_vars, txt, mig, lck, cch>>

NextRender == Render

SpecRender == InitRender /\ [][NextRender]_vars

(***************************************************************************)
(* The migration of a workspace (src/src/migrator.rs).  A source page is   *)
(* an item with content or a collection with children; the content of an   *)
(* item is a sequence of tokens, a token being a word or the url of a      *)
(* page.  The walk makes one future per child of the workspace and of      *)
(* every collection: a task, named by its path of child indexes.           *)
(***************************************************************************)
\* item.url() / collection.url() of the source page id.
url(id) == <<"nuclino", id>>

\* notion_page.url of the n-th page the remote created.
notion_url(n) == <<"notion", n>>

Word(k) == <<"word", k>>

Item(content) ==
    [kind |-> "item", cached |-> TRUE, content |-> Some(content), children |-> <<>>]

\* An item the source has no content for.
Bare == [kind |-> "item", cached |-> TRUE, content |-> None, children |-> <<>>]

Collection(children) ==
    [kind |-> "collection", cached |-> TRUE, content |-> None, children |-> children]

\* n items at the top; item i links the item after it (the first, for the
\* last) and the item before it (a page outside, for the first).
Flat(n) ==
    [children |-> [i \in 1..n |-> i],
     pages |-> [i \in 1..n |->
                  Item(<<url((i % n) + 1), Word(i),
                         url(IF i > 1 THEN i - 1 ELSE n + 1)>>)]]

\* Two collections that hold the same item 3.
Shared ==
    [children |-> <<1, 2>>,
     pages |-> <<Collection(<<3, 4>>), Collection(<<3>>),
                 Item(<<Word(3)>>), Item(<<url(3)>>)>>]

\* A collection in a collection, four and three children wide.
Nested ==
    [children |-> <<1>>,
     pages |-> <<Collection(<<2, 3, 4>>), Collection(<<5, 6, 7, 8>>),
                 Item(<<Word(3)>>), Item(<<url(5)>>), Item(<<Word(5)>>),
                 Item(<<url(3)>>), Item(<<Word(7)>>), Item(<<url(1)>>)>>]

\* An item without content between two items, an empty collection last.
Gaps ==
    [children |-> <<1, 2, 3, 4>>,
     pages |-> <<Item(<<Word(1)>>), Bare, Item(<<url(1)>>), Collection(<<>>)>>]

\* An empty collection first, a page that is not in the cache last.
Uncached ==
    [children |-> <<1, 2>>,
     pages |-> <<Collection(<<>>), [Item(<<Word(2)>>) EXCEPT !.cached = FALSE]>>]

Workspaces == {Flat(n) : n \in 1..MaxFlat} \cup {Shared, Nested, Gaps, Uncached}

\* workspace.children() for the empty path, collection.children() else.
RECURSIVE PageAt(_, _)
PageAt(ws, path) ==
    IF Len(path) = 1 THEN ws.children[path[1]]
    ELSE ws.pages[PageAt(ws, SubSeq(path, 1, Len(path) - 1))].children[Last(path)]

Kids(ws, path) == IF path = <<>> THEN ws.children ELSE ws.pages[PageAt(ws, path)].children

RECURSIVE PathsUnder(_, _)
PathsUnder(ws, path) ==
    UNION {{path \o <<i>>} \cup PathsUnder(ws, path \o <<i>>) :
           i \in 1..Len(Kids(ws, path))}

\* A future of migrate_page that was not polled yet.
NewTask(page) ==
    [page |-> page, st |-> "new", parent_id |-> None, remapped |-> None,
     seen |-> <<>>, notion |-> None, subpages |-> <<>>, err |-> None]

MigInit(ws) ==
    [pc |-> "start", ws |-> ws,
     tasks |-> [p \in PathsUnder(ws, <<>>) |-> NewTask(PageAt(ws, p))],
     urlmap |-> <<>>, next |-> 1, appended |-> <<>>]

\* A mutant of replace: every url is replaced, matching or not.
replace_every_url(current, nuc, not) ==
    [i \in 1..Len(current) |-> IF current[i][1] = "nuclino" THEN not ELSE current[i]]

\* str::replace, on tokens.
replace(current, nuc, not) ==
    [i \in 1..Len(current) |-> IF current[i] = nuc THEN not ELSE current[i]]

\* Migrator::remap: the fold of replace over the entries of the map (in
\* the order the map iterates, which makes no difference: no url the
\* remote assigns is the url of a source page).
RECURSIVE remap_fold(_, _, _)
remap_fold(keys, map, current) ==
    IF keys = {} THEN current
    ELSE LET nuc == CHOOSE k \in keys : TRUE
         IN remap_fold(keys \ {nuc}, map, replace(current, nuc, map[nuc]))

remap(map, input) == remap_fold(DOMAIN map, map, input)

\* HashMap::insert: a value under the key is replaced.
insert(map, k, v) == [x \in DOMAIN map \cup {k} |-> IF x = k THEN v ELSE map[x]]

Running == {"create", "walk", "append"}

Parent(p) == SubSeq(p, 1, Len(p) - 1)

IsAncestor(q, p) == Len(q) < Len(p) /\ SubSeq(p, 1, Len(q)) = q

\* The children of q in the buffer of its stream: polled, not finished.
InProgress(m, q) ==
    {i \in 1..Len(Kids(m.ws, q)) : m.tasks[q \o <<i>>].st \in Running}

\* The children of q its stream did not poll yet.
Queued(m, q) == {i \in 1..Len(Kids(m.ws, q)) : m.tasks[q \o <<i>>].st = "new"}

\* A mutant of slot_free: the buffer takes one future more.
slot_free_one_more(n) == n <= BufferedMax

\* buffer_unordered(3), migrator.rs:63 and :166: the buffer takes a future
\* while it holds fewer than three.
slot_free(n) == n < BufferedMax

\* The id the children of q are created under: self.parent for the
\* workspace, the id of its own page for a collection.
TargetOf(m, q) == IF q = <<>> THEN WorkspaceParent ELSE m.tasks[q].notion[1]

\* migrate_page / migrate_item / migrate_collection as far as the first
\* await: the page is loaded from the cache; an item without content is an
\* error; the content of an item is remapped; the create request goes out.
FirstPoll(m, p) ==
    LET t == m.tasks[p]
        page == m.ws.pages[t.page]
        polled == [t EXCEPT !.parent_id = Some(TargetOf(m, Parent(p)))]
    IN IF ~page.cached THEN [polled EXCEPT !.st = "err"]
       ELSE IF page.kind = "item"
       THEN IF page.content = None THEN [polled EXCEPT !.st = "err"]
            ELSE [polled EXCEPT !.st = "create",
                                !.remapped = Some(remap(m.urlmap, page.content[1])),
                                !.seen = m.urlmap]
       ELSE [polled EXCEPT !.st = "create"]

\* The ? of migrate (:66) and of migrate_collection (:169): the error of
\* task p is the result of every caller above it, whose streams are
\* dropped with the futures in them.
FailAll(m, p) ==
    [m EXCEPT !.pc = "err",
              !.tasks = [x \in DOMAIN m.tasks |->
                           IF x = p \/ IsAncestor(x, p)
                           THEN [m.tasks[x] EXCEPT !.st = "err"]
                           ELSE IF m.tasks[x].st \in Running
                           THEN [m.tasks[x] EXCEPT !.st = "dropped"]
                           ELSE m.tasks[x]]]

\* The stream of q polls its next queued future.
StartOne(m, q) ==
    LET i == CHOOSE i \in Queued(m, q) : \A j \in Queued(m, q) : i <= j
        p == q \o <<i>>
        t == FirstPoll(m, p)
        polled == [m EXCEPT !.tasks[p] = t]
    IN IF t.st = "err" THEN FailAll(polled, p) ELSE polled

\* The stream of q fills its buffer.
RECURSIVE Fill(_, _)
Fill(m, q) ==
    IF m.pc = "err" \/ Queued(m, q) = {}
       \/ ~slot_free(Cardinality(InProgress(m, q)))
    THEN m
    ELSE Fill(StartOne(m, q), q)

\* The stream of q is at its end (:65-70 and :168-186): migrate returns
\* Ok, migrate_collection sends the links to its subpages.
Settle(m, q) ==
    IF m.pc = "err" \/ Queued(m, q) # {} \/ InProgress(m, q) # {} THEN m
    ELSE IF q = <<>> THEN [m EXCEPT !.pc = "ok"]
    ELSE [m EXCEPT !.tasks[q].st = "append"]

\* migrate :58-65 and migrate_collection :160-168: the stream of the
\* children is made and polled for the first time.
BeginWalk(m, q) == Settle(Fill(m, q), q)

\* Task p returned Ok(page): its caller pushes the page and polls on.
CompleteOk(m, p) ==
    LET q == Parent(p)
        done == [m EXCEPT !.tasks[p].st = "ok"]
        pushed == IF q = <<>> THEN done
                  ELSE [done EXCEPT !.tasks[q].subpages = Append(@, m.tasks[p].notion[1])]
    IN Settle(pushed, q)

\* The remote made a page for task p; it is entered in the url map.
Created(m, p) ==
    [m EXCEPT !.tasks[p].notion = Some(m.next),
              !.next = m.next + 1,
              !.urlmap = insert(m.urlmap, url(m.tasks[p].page), notion_url(m.next))]

KindOf(m, p) == m.ws.pages[m.tasks[p].page].kind

Awaiting(p, kind, st) ==
    /\ mig.pc = "walk"
    /\ p \in DOMAIN mig.tasks
    /\ KindOf(mig, p) = kind
    /\ mig.tasks[p].st = st

InitMigrate ==
    /\ mig \in {MigInit(ws) : ws \in Workspaces}
    /\ txt = TxtIdle
    /\ rend = RendIdle
    /\ lck = LckIdle
    /\ cch = CchIdle
    /\ PageIdle

\* Migrator::migrate, :54-65.
Migrate ==
    /\ mig.pc = "start"
    /\ mig' = BeginWalk([mig EXCEPT !.pc = "walk"], <<>>)
    /\ UNCHANGED <<page_vars, txt, rend, lck, cch>>

\* A stream with room in its buffer polls its next future.
StartNext ==
    /\ mig.pc = "walk"
    /\ \E q \in {<<>>} \cup {p \in DOMAIN mig.tasks : mig.tasks[p].st = "walk"} :
         /\ Queued(mig, q) # {}
         /\ slot_free(Cardinality(InProgress(mig, q)))
         /\ mig' = StartOne(mig, q)
    /\ UNCHANGED <<page_vars, txt, rend, lck, cch>>

\* The error status of a write and the attempts made for it: a write of
\* create_page goes through do_create / do_append, which return a 409
\* only after the retries (retries.rs:27, :69) and any other status at
\* once.
via_executor(status) ==
    [status |-> status, attempts |-> IF status = 409 THEN MAX_RETRIES + 1 ELSE 1]

\* The same for a write sent with the client itself (migrator.rs:157 and
\* :179-184): the first error is the result.
direct(status) == [status |-> status, attempts |-> 1]

\* Task p got the error e from the remote.
Refused(m, p, e) == FailAll([m EXCEPT !.tasks[p].err = Some(e)], p)

\* A mutant of ItemFailed: the url map entry is made before the result of
\* create_page is looked at.
ItemFailed_with_entry ==
    /\ \E p \in DOMAIN mig.tasks, s \in StatusCodes :
         /\ Awaiting(p, "item", "create")
         /\ mig' = Refused(Created(mig, p), p, via_executor(s))
    /\ UNCHANGED <<page_vars, txt, rend, lck, cch>>

\* migrate_item, :121-128: create_page returned the page.
ItemCreated ==
    /\ \E p \in DOMAIN mig.tasks :
         /\ Awaiting(p, "item", "create")
         /\ mig' = CompleteOk(Created(mig, p), p)
    /\ UNCHANGED <<page_vars, txt, rend, lck, cch>>

\* migrate_item, :121-126: create_page returned an error.
ItemFailed ==
    /\ \E p \in DOMAIN mig.tasks, s \in StatusCodes :
         /\ Awaiting(p, "item", "create")
         /\ mig' = Refused(mig, p, via_executor(s))
    /\ UNCHANGED <<page_vars, txt, rend, lck, cch>>

\* migrate_collection, :157-168: the page of the collection is there.
CollectionCreated ==
    /\ \E p \in DOMAIN mig.tasks :
         /\ Awaiting(p, "collection", "create")
         /\ mig' = BeginWalk([Created(mig, p) EXCEPT !.tasks[p].st = "walk"], p)
    /\ UNCHANGED <<page_vars, txt, rend, lck, cch>>

\* migrate_collection, :157: create_a_page answered with an error.
CollectionFailed ==
    /\ \E p \in DOMAIN mig.tasks, s \in StatusCodes :
         /\ Awaiting(p, "collection", "create")
         /\ mig' = Refused(mig, p, direct(s))
    /\ UNCHANGED <<page_vars, txt, rend, lck, cch>>

\* migrate_collection, :172-186: the links to the subpages are there.
LinksAppended ==
    /\ \E p \in DOMAIN mig.tasks :
         /\ Awaiting(p, "collection", "append")
         /\ mig' = CompleteOk(
                     [mig EXCEPT !.appended =
                        Append(@, [parent_id |-> mig.tasks[p].notion[1],
                                   links |-> mig.tasks[p].subpages])], p)
    /\ UNCHANGED <<page_vars, txt, rend, lck, cch>>

\* migrate_collection, :179-184: append_block_children answered with an
\* error.
LinksFailed ==
    /\ \E p \in DOMAIN mig.tasks, s \in StatusCodes :
         /\ Awaiting(p, "collection", "append")
         /\ mig' = Refused(mig, p, direct(s))
    /\ UNCHANGED <<page_vars, txt, rend, lck, cch>>

NextMigrate ==
    \/ Migrate
    \/ StartNext
    \/ ItemCreated
    \/ ItemFailed
    \/ CollectionCreated
    \/ CollectionFailed
    \/ LinksAppended
    \/ LinksFailed

SpecMigrate == InitMigrate /\ [][NextMigrate]_vars

(***************************************************************************)
(* The url map behind its lock (src/src/migrator.rs:22-28), at the grain   *)
(* of the lock.  The branches are the futures of one buffer_unordered      *)
(* stream: the stream polls one branch at a time, and a branch runs from   *)
(* one await to the next before another is polled.  A branch is the        *)
(* migration of an item (remap, create_page, insert) or the head of the    *)
(* migration of a collection (create_a_page, insert).  The stream may      *)
(* have more children than slots, so a branch may start when another has   *)
(* finished.  The iteration of the HashMap is in any order.                *)
(***************************************************************************)
Branch(page, kind) ==
    [page |-> page, kind |-> kind, pc |-> "new",
     content |-> <<url((page % BufferedMax) + 1), Word(page), url(page)>>,
     todo |-> {}, snap |-> <<>>, notion |-> None]

Kinds == {"item", "collection"}

\* The streams: a branch per slot, of either kind.
Streams == {[b \in 1..BufferedMax |-> Branch(b, k[b])] : k \in [1..BufferedMax -> Kinds]}

InitLock ==
    /\ lck \in {[LckIdle EXCEPT !.pc = "run", !.br = st] : st \in Streams}
    /\ txt = TxtIdle
    /\ rend = RendIdle
    /\ mig = MigIdle
    /\ cch = CchIdle
    /\ PageIdle

\* Branch b is the one the stream polls, and it is at pc.
Polled(b, pc) == lck.pc = "run" /\ lck.polled = Some(b) /\ lck.br[b].pc = pc

\* buffer_unordered polls a branch that can go on: a new one, or one whose
\* create was answered.  An item starts with remap (:120), a collection
\* with its request (:147-157).
PollBranch ==
    /\ lck.pc = "run"
    /\ lck.polled = None
    /\ \E b \in DOMAIN lck.br :
         /\ lck.br[b].pc \in {"new", "created"}
         /\ lck' = [lck EXCEPT !.polled = Some(b),
                               !.br[b].pc = IF @ = "created" THEN "insert"
                                            ELSE IF lck.br[b].kind = "item"
                                                 THEN "remap" ELSE "send"]
    /\ UNCHANGED <<page_vars, txt, rend, mig, cch>>

\* urlmap(), :24-27: lock() returns the guard when no other guard lives.
Acquire ==
    /\ \E b \in DOMAIN lck.br :
         /\ Polled(b, "remap") \/ Polled(b, "insert")
         /\ lck.holder = None
         /\ lck' = [lck EXCEPT !.holder = Some(b),
                               !.br[b].pc = IF @ = "remap" THEN "fold" ELSE "put",
                               !.br[b].snap = lck.map,
                               !.br[b].todo = DOMAIN lck.map]
    /\ UNCHANGED <<page_vars, txt, rend, mig, cch>>

\* remap, :136-138: one step of the fold over the entries.
FoldStep ==
    /\ \E b \in DOMAIN lck.br :
         /\ Polled(b, "fold")
         /\ \E nuc \in lck.br[b].todo :
              lck' = [lck EXCEPT !.br[b].content = replace(@, nuc, lck.map[nuc]),
                                 !.br[b].todo = @ \ {nuc}]
    /\ UNCHANGED <<page_vars, txt, rend, mig, cch>>

\* A mutant of ReleaseRead: the guard of remap lives on in the caller.
ReleaseRead_kept ==
    /\ \E b \in DOMAIN lck.br :
         /\ Polled(b, "fold")
         /\ lck.br[b].todo = {}
         /\ lck' = [lck EXCEPT !.br[b].pc = "send"]
    /\ UNCHANGED <<page_vars, txt, rend, mig, cch>>

\* remap, :139: the fold is over, the guard is dropped as remap returns.
ReleaseRead ==
    /\ \E b \in DOMAIN lck.br :
         /\ Polled(b, "fold")
         /\ lck.br[b].todo = {}
         /\ lck' = [lck EXCEPT !.holder = None, !.br[b].pc = "send"]
    /\ UNCHANGED <<page_vars, txt, rend, mig, cch>>

\* create_page(...).await, :121, and create_a_page(...).await, :157: the
\* branch is suspended and the stream can poll another.
Suspend ==
    /\ \E b \in DOMAIN lck.br :
         /\ Polled(b, "send")
         /\ lck' = [lck EXCEPT !.polled = None, !.br[b].pc = "create"]
    /\ UNCHANGED <<page_vars, txt, rend, mig, cch>>

\* The remote made the page of branch b.
Answered ==
    /\ lck.pc = "run"
    /\ \E b \in DOMAIN lck.br :
         /\ lck.br[b].pc = "create"
         /\ lck' = [lck EXCEPT !.next = @ + 1,
                               !.br[b].pc = "created",
                               !.br[b].notion = Some(lck.next)]
    /\ UNCHANGED <<page_vars, txt, rend, mig, cch>>

\* The create of branch b failed: ? returns the error, :121 and :157, the
\* stream returns it, :62 and :166, and the other branches are dropped.
Dropped ==
    /\ lck.pc = "run"
    /\ lck.polled = None
    /\ \E b \in DOMAIN lck.br :
         /\ lck.br[b].pc = "create"
         /\ lck' = [lck EXCEPT !.pc = "err", !.br[b].pc = "failed"]
    /\ UNCHANGED <<page_vars, txt, rend, mig, cch>>

\* urlmap().insert(url, notion_page.url), :122 and :158.
Put ==
    /\ \E b \in DOMAIN lck.br :
         /\ Polled(b, "put")
         /\ lck' = [lck EXCEPT !.map = insert(@, url(lck.br[b].page),
                                              notion_url(lck.br[b].notion[1])),
                               !.br[b].pc = "stored"]
    /\ UNCHANGED <<page_vars, txt, rend, mig, cch>>

\* The end of the statement of the insert: the guard is dropped, and the
\* branch goes on to its result.
ReleaseWrite ==
    /\ \E b \in DOMAIN lck.br :
         /\ Polled(b, "stored")
         /\ lck' = [lck EXCEPT !.holder = None, !.polled = None, !.br[b].pc = "done"]
    /\ UNCHANGED <<page_vars, txt, rend, mig, cch>>

NextLock ==
    \/ PollBranch
    \/ Acquire
    \/ FoldStep
    \/ ReleaseRead
    \/ Suspend
    \/ Answered
    \/ Dropped
    \/ Put
    \/ ReleaseWrite

SpecLock == InitLock /\ [][NextLock]_vars

(***************************************************************************)
(* The cache of a workspace (src/src/cache.rs).  The pages are numbered    *)
(* from 1 and the workspace is 0; a page is an item with the pages its     *)
(* content mentions, or a collection with its children.  The stack holds   *)
(* the activations of cache_page above the one of cache_workspace, each    *)
(* with the ids it has still to ask for.  Every read of the remote and of  *)
(* the disk and every write of a file can fail.  The users and the files   *)
(* of a page are kept out: their ids are not ids of pages, and all that    *)
(* they can do to the run of a page is to end it with the error of a save. *)
(***************************************************************************)
MaxPages == 3

Mentions(refs) == [kind |-> "item", refs |-> refs]

Contains(refs) == [kind |-> "collection", refs |-> refs]

\* n items, each mentioning the next and the last mentioning the first.
Ring(n) == [top |-> <<1>>, pages |-> [i \in 1..n |-> Mentions(<<(i % n) + 1>>)]]

\* n collections, each the child of the one before and the first the child
\* of the last.
Knot(n) == [top |-> <<1, 1>>, pages |-> [i \in 1..n |-> Contains(<<(i % n) + 1>>)]]

\* A collection of items that all mention the last item, which is also a
\* child of the workspace and mentions itself.
Fan(n) ==
    [top |-> <<1, n>>,
     pages |-> [i \in 1..n |-> IF i = 1 THEN Contains([k \in 1..(n - 1) |-> k + 1])
                               ELSE Mentions(<<n>>)]]

Graphs == {Ring(MaxPages), Knot(MaxPages), Fan(MaxPages)}

\* Cache::new, :32-65: cached is what the directory holds, pending is
\* empty; cache_workspace has the children of the workspace to ask for.
InitCache ==
    /\ cch \in {[CchIdle EXCEPT !.pc = "start", !.pages = g.pages, !.cached = idset,
                                !.stack = <<[id |-> 0, todo |-> g.top]>>,
                                !.fetched = [i \in 1..Len(g.pages) |-> 0]] :
                   g \in Graphs, idset \in SUBSET (0..MaxPages)}
    /\ txt = TxtIdle
    /\ rend = RendIdle
    /\ mig = MigIdle
    /\ lck = LckIdle
    /\ PageIdle

\* cache_workspace, :68-69: the workspace is saved first, and the error of
\* the save is the result.
CacheWorkspace ==
    /\ cch.pc = "start"
    /\ \E saved \in BOOLEAN :
         cch' = IF 0 \in cch.cached THEN [cch EXCEPT !.pc = "run"]
                ELSE IF saved THEN [cch EXCEPT !.pc = "run", !.cached = @ \cup {0}]
                ELSE [cch EXCEPT !.pc = "err"]
    /\ UNCHANGED <<page_vars, txt, rend, mig, lck>>

\* The activation that runs, and the id it asks for next.
Caller == cch.stack[Len(cch.stack)]

NextId == Head(Caller.todo)

Calling == cch.pc = "run" /\ Caller.todo # <<>>

\* The caller has made its call.
Called(c) == [c EXCEPT !.stack[Len(cch.stack)].todo = Tail(@)]

\* cache_page(id) returned an error.  cache_page and cache_meta drop it,
\* :140-148 and :166-168; the collect of cache_workspace ends at it, :70.
Erred(c, id) ==
    [Called(c) EXCEPT !.ret = [id |-> id, ok |-> FALSE],
                      !.pc = IF Len(cch.stack) = 1 THEN "done" ELSE "run"]

\* cache_page, :124-126.
Declined ==
    /\ Calling
    /\ NextId \in cch.pending
    /\ cch' = Erred([cch EXCEPT !.refused = @ \cup {NextId}], NextId)
    /\ UNCHANGED <<page_vars, txt, rend, mig, lck>>

\* cache_page, :127: fetch_item returned an error, of the disk or of the
\* remote.
FetchFailed ==
    /\ Calling
    /\ NextId \notin cch.pending
    /\ cch' = Erred(cch, NextId)
    /\ UNCHANGED <<page_vars, txt, rend, mig, lck>>

\* fetch_item, :90-96, then cache_page, :129: the page came from the disk
\* when its id is in cached and from the remote when not, and it is pending.
Held(c, id) ==
    [c EXCEPT !.pending = @ \cup {id},
              !.fetched[id] = IF id \in cch.cached THEN @ ELSE @ + 1,
              !.served = IF id \in cch.cached THEN @ \cup {id} ELSE @]

\* A mutant of Fetched: a page that is pending is fetched like any other.
Fetched_while_pending ==
    /\ Calling
    /\ Len(cch.stack) <= MaxPages + 1
    /\ cch' = [Held(Called(cch), NextId) EXCEPT
                  !.stack = Append(@, [id |-> NextId, todo |-> cch.pages[NextId].refs])]
    /\ UNCHANGED <<page_vars, txt, rend, mig, lck>>

\* cache_page, :124-139: the page is there and its users are saved; its
\* children, or the pages it mentions, come next.
Fetched ==
    /\ Calling
    /\ NextId \notin cch.pending
    /\ Len(cch.stack) <= MaxPages + 1
    /\ cch' = [Held(Called(cch), NextId) EXCEPT
                  !.stack = Append(@, [id |-> NextId, todo |-> cch.pages[NextId].refs])]
    /\ UNCHANGED <<page_vars, txt, rend, mig, lck>>

\* cache_page, :131-137: the page is there, and the save of one of its
\* users failed: ? returns the error.
UserSaveFailed ==
    /\ Calling
    /\ NextId \notin cch.pending
    /\ cch' = Erred(Held(cch, NextId), NextId)
    /\ UNCHANGED <<page_vars, txt, rend, mig, lck>>

\* A mutant of Return: the id leaves pending whether the file was written
\* or not.
Return_forgets ==
    /\ cch.pc = "run"
    /\ Len(cch.stack) > 1
    /\ Caller.todo = <<>>
    /\ \E saved \in BOOLEAN :
         cch' = [cch EXCEPT
                    !.cached = IF saved THEN @ \cup {Caller.id} ELSE @,
                    !.pending = IF Caller.id \notin cch.cached THEN @ \ {Caller.id} ELSE @,
                    !.stack = SubSeq(@, 1, Len(@) - 1),
                    !.ret = [id |-> Caller.id, ok |-> TRUE]]
    /\ UNCHANGED <<page_vars, txt, rend, mig, lck>>

\* cache_page, :150-157, with save_item, :110-121: the page is saved when
\* its id is not in cached, and the result is the page whether the file
\* was written or not.
Return ==
    /\ cch.pc = "run"
    /\ Len(cch.stack) > 1
    /\ Caller.todo = <<>>
    /\ \E saved \in BOOLEAN :
         LET written == Caller.id \notin cch.cached /\ saved
         IN cch' = [cch EXCEPT
                       !.cached = IF written THEN @ \cup {Caller.id} ELSE @,
                       !.pending = IF written THEN @ \ {Caller.id} ELSE @,
                       !.stack = SubSeq(@, 1, Len(@) - 1),
                       !.ret = [id |-> Caller.id, ok |-> TRUE]]
    /\ UNCHANGED <<page_vars, txt, rend, mig, lck>>

\* cache_workspace, :70-71: every child of the workspace was asked for.
Collected ==
    /\ cch.pc = "run"
    /\ Len(cch.stack) = 1
    /\ Caller.todo = <<>>
    /\ cch' = [cch EXCEPT !.pc = "done"]
    /\ UNCHANGED <<page_vars, txt, rend, mig, lck>>

NextCache ==
    \/ CacheWorkspace
    \/ Declined
    \/ FetchFailed
    \/ Fetched
    \/ UserSaveFailed
    \/ Return
    \/ Collected

SpecCache == InitCache /\ [][NextCache]_vars

\* The run is one thread of control: it goes on as long as it can.
SpecCacheFair == SpecCache /\ WF_vars(NextCache)

(***************************************************************************)
(* The remote tree read back, and the rendered blocks in the same form.    *)
(***************************************************************************)
RECURSIVE Rebuild(_)
Rebuild(id) ==
    LET kids == remote.blocks[id].kids
    IN [i \in 1..Len(kids) |->
          [block_type |-> remote.blocks[kids[i]].block_type,
           rich_text |-> remote.blocks[kids[i]].rich_text,
           cells |-> remote.blocks[kids[i]].cells,
           children |-> Rebuild(kids[i])]]

\* The children a block carries, whatever its type.
Carried(b) == IF b.children = None THEN <<>> ELSE b.children[1]

RECURSIVE Norm(_)
Norm(blocks) ==
    [i \in 1..Len(blocks) |->
       [block_type |-> blocks[i].block_type, rich_text |-> blocks[i].rich_text,
        cells |-> blocks[i].cells, children |-> Norm(Carried(blocks[i]))]]

RECURSIVE CountBlocks(_)
RECURSIVE CountNested(_, _)

\* The blocks of a sequence, nested ones included.
CountBlocks(blocks) == Len(blocks) + CountNested(blocks, 1)

\* The blocks nested in blocks[i], blocks[i + 1], ...
CountNested(blocks, i) ==
    LET withKids == {j \in i..Len(blocks) : Carried(blocks[j]) # <<>>}
    IN IF withKids = {} THEN 0
       ELSE LET j == CHOOSE k \in withKids : \A m \in withKids : k <= m
            IN CountBlocks(Carried(blocks[j])) + CountNested(blocks, j + 1)

PageRun == mp.pc # "ext"

Finished == PageRun /\ mp.pc = "done" /\ mp.result = "ok"

\* The remote holds the rendered tree under the page, and nothing else.
TreeReproduced ==
    /\ Rebuild(mp.page_id) = Norm(mp.blocks)
    /\ Cardinality(DOMAIN remote.blocks) = 2 + CountBlocks(mp.blocks)

\* The appends to parent p among the first n.
WritesTo(p, n) == {j \in 1..n : writes[j].parent_id = p}

SetMax(S) == CHOOSE k \in S : \A m \in S : m <= k

\* An append of the planner is with the remote.
AppendInFlight == PageRun /\ exec.fn = "append" /\ exec.pc = "request"

\* C1: when create_page finishes without a terminal error, the remote tree
\* under the new page is the rendered block sequence: the same children in
\* the same order under every parent, every block exactly once.
C1_TreeIsomorphic == Finished => TreeReproduced

\* A finished run that stripped a deep block and split a batch.
C1_Witness ==
    /\ Finished
    /\ \E i \in 1..Len(writes) : writes[i].parent_id # mp.page_id
    /\ \E i \in 1..Len(writes) : writes[i].after # None
    /\ Len(mp.blocks) > BatchLimit

\* C2: every append of the planner carries between 1 and 100 blocks, and
\* the batch under construction holds fewer than 100 blocks whenever the
\* next block is popped.
C2_BatchSize ==
    /\ AppendInFlight =>
         /\ Len(exec.request.children) >= 1
         /\ Len(exec.request.children) <= BatchLimit
    /\ (PageRun /\ stack # <<>>) =>
         \A i \in 1..Len(stack) :
            stack[i].pc = "loop" => Len(stack[i].current_tranche) < BatchLimit

\* A full batch is in flight, below the top level of the page.
C2_Witness ==
    /\ AppendInFlight
    /\ Len(exec.request.children) = BatchLimit
    /\ exec.request.parent_id # mp.page_id

\* C3: no block of a submitted batch has a child with non-empty children.
C3_OneLevelNesting ==
    AppendInFlight =>
        \A i \in 1..Len(exec.request.children) :
           \A j \in 1..Len(Carried(exec.request.children[i])) :
              Carried(Carried(exec.request.children[i])[j]) = <<>>

\* C4: the first append to a parent has no anchor; every later one has as
\* anchor the last id of the append before it to that parent; the children
\* of a parent are the ids of its appends, in the order of the appends.
C4_AnchorChain ==
    PageRun =>
      \A i \in 1..Len(writes) :
         LET before == WritesTo(writes[i].parent_id, i - 1)
         IN /\ IF before = {} THEN writes[i].after = None
               ELSE writes[i].after = Some(Last(writes[SetMax(before)].ids))
            /\ LET kids == remote.blocks[writes[i].parent_id].kids
                   last == Last(writes[i].ids)
               IN \A j \in before :
                     IndexOf(kids, Last(writes[j].ids)) < IndexOf(kids, last)

\* Three appends went to the page, the later two anchored.
C4_Witness ==
    /\ PageRun
    /\ Cardinality(WritesTo(mp.page_id, Len(writes))) >= 3
    /\ writes[Len(writes)].after # None
    /\ \E i \in 1..Len(writes) :
          /\ writes[i].parent_id # mp.page_id
          /\ WritesTo(writes[i].parent_id, i - 1) # {}

\* C5: every attempt of one append sends the same parent, batch and
\* anchor, and a run that met conflicts but no terminal error leaves the
\* tree of the run without conflicts.
C5_RetryIdempotent ==
    /\ Cardinality(exec.sent) <= 1
    /\ (Finished /\ conflicted) => TreeReproduced

\* A finished run whose anchored appends met conflicts.
C5_Witness ==
    /\ Finished
    /\ conflicted
    /\ \E i \in 1..Len(writes) : writes[i].after # None

\* C6: a write started with retry counter 0 makes at most 6 attempts; it
\* returns the conflict only after 5 retries, and a success is returned at
\* once: the attempts are the conflicts before it and itself.
C6_RetryCeiling ==
    /\ exec.calls <= MAX_RETRIES + 1
    /\ exec.retry <= MAX_RETRIES
    /\ (exec.pc = "returned" /\ exec.error = "409") =>
          /\ exec.calls = MAX_RETRIES + 1
          /\ exec.retry = MAX_RETRIES
    /\ (exec.pc = "returned" /\ exec.response.kind = "ok") =>
          /\ exec.error = "none"
          /\ exec.calls = exec.retry + 1
          /\ Len(exec.created) = IF exec.fn = "create" THEN 1 ELSE Len(exec.slice)

\* The conflict is returned after the last retry.
C6_Witness == exec.pc = "returned" /\ exec.error = "409" /\ exec.fn = "create"

C8_EmptySliceNoop ==
    (exec.fn = "append" /\ exec.slice = <<>>) =>
        /\ exec.pc \in {"entry", "returned"}
        /\ exec.calls = 0
        /\ exec.delays = 0
        /\ remote = RemoteInit
        /\ exec.pc = "returned" => (exec.error = "none" /\ exec.created = <<>>)

\* do_append returned for an empty slice.
C8_Witness == exec.fn = "append" /\ exec.slice = <<>> /\ exec.pc = "returned"

\* An append of this page ended in a terminal error.
Failed ==
    /\ PageRun
    /\ mp.page_id # 0
    /\ \/ exec.pc = "returned" /\ exec.error # "none"
       \/ ret \notin {"none", "ok"}
       \/ mp.pc = "done" /\ mp.result # "ok"

TheError ==
    IF exec.pc = "returned" THEN exec.error
    ELSE IF mp.pc = "done" THEN mp.result ELSE ret

\* C9: after a terminal error of an append no write is issued, the error
\* is handed up unchanged and create_page returns it.
C9_NoWriteAfterError ==
    /\ [][Failed => /\ Failed'
                    /\ TheError' = TheError
                    /\ exec'.pc \in {"idle", "returned"}
                    /\ exec'.calls <= exec.calls
                    /\ remote' = remote
                    /\ writes' = writes
                    /\ Len(stack') <= Len(stack)]_vars
    /\ [](Failed => (mp.pc = "done" \/ ENABLED Next))

\* create_page returned the error of an append below the top level, with
\* blocks still queued.
C9_Witness ==
    /\ Failed
    /\ mp.pc = "done"
    /\ mp.result = "409"
    /\ Len(writes) >= 2
    /\ CountBlocks(mp.blocks) > Cardinality(DOMAIN remote.blocks)

\* The documents that render to no blocks.
EmptyDocs == {d \in Docs : convert(d) = <<>>}

\* The input renders to no blocks.
RendersNothing == PageRun /\ doc \in EmptyDocs

\* C10: when the input renders to no blocks, create_page returns an error
\* and no remote call is made.
C10_EmptyDocument ==
    RendersNothing =>
        /\ exec = ExecIdle
        /\ remote = RemoteInit
        /\ writes = <<>>
        /\ mp.pc = "start" \/ (mp.pc = "done" /\ mp.result = "empty")

\* create_page returned for a document of nodes that render to nothing.
C10_Witness == RendersNothing /\ doc # <<>> /\ mp.pc = "done"

\* C12: within one run of create_page at most one write is in flight at any
\* time, and a write is called only when no write is in flight and the
\* result of the write before it has been taken by the planner.
C12_WritesSequential ==
    /\ [](PageRun => inflight <= 1)
    /\ [][(PageRun /\ inflight' > inflight) => (inflight = 0 /\ exec.pc = "idle")]_vars

\* A third write is in flight after two appends of the run were applied.
C12_Witness == PageRun /\ Len(writes) >= 2 /\ inflight = 1 /\ exec.pc = "request"

\* The contents of the spans, joined.
RECURSIVE Contents(_)
Contents(spans) ==
    IF spans = <<>> THEN <<>> ELSE Head(spans).content \o Contents(Tail(spans))

\* C17: the spans split_text_at_api_limit returns, joined in order, are the
\* input; no span is longer than 2000 bytes; every split falls on a
\* character boundary of the input; every span has the style passed in.
C17_SplitterSound ==
    txt.pc = "done" =>
      /\ Contents(txt.results) = txt.content
      /\ \A i \in 1..Len(txt.results) :
           /\ Len(txt.results[i].content) <= TextLimit
           /\ is_char_boundary(txt.content, Len(Contents(SubSeq(txt.results, 1, i))))
           /\ txt.results[i].annotations = Some(txt.style)
           /\ txt.results[i].plain_text = Some(txt.results[i].content)

\* Three spans under a style, the first cut short of the limit by a
\* character that lies across it.
C17_Witness ==
    /\ txt.pc = "done"
    /\ txt.style = "bold"
    /\ Len(txt.results) = 3
    /\ Len(txt.results[1].content) < TextLimit

\* C18: split_text_at_api_limit never returns an empty sequence; an empty
\* input gives one span with empty content; a non-empty input gives no
\* span with empty content, a length that is a multiple of 2000 included.
C18_SplitterNonEmpty ==
    txt.pc = "done" =>
      /\ txt.results # <<>>
      /\ txt.content = <<>> =>
           (Len(txt.results) = 1 /\ txt.results[1].content = <<>>)
      /\ txt.content # <<>> =>
           \A i \in 1..Len(txt.results) : txt.results[i].content # <<>>

\* A text of twice the limit came out as two full spans.
C18_Witness ==
    /\ txt.pc = "done"
    /\ Len(txt.content) = 2 * TextLimit
    /\ Len(txt.results) = 2
    /\ Len(txt.results[2].content) = TextLimit

\* The spans of the blocks, of their cells and of their children.
RECURSIVE SpansOf(_)
SpansOf(blocks) ==
    UNION {{blocks[i].rich_text[j] : j \in 1..Len(blocks[i].rich_text)}
           \cup UNION {{blocks[i].cells[c][j] : j \in 1..Len(blocks[i].cells[c])} :
                         c \in 1..Len(blocks[i].cells)}
           \cup (IF blocks[i].children = None THEN {}
                 ELSE SpansOf(blocks[i].children[1])) :
           i \in 1..Len(blocks)}

\* C19: every text span of every block convert returns, whatever inline or
\* block node it comes from, has a content of at most 2000 bytes.
C19_SpanLength ==
    rend.pc = "done" =>
      \A s \in SpansOf(rend.blocks) : s.type = "text" => Len(s.content) <= TextLimit

\* C20: whenever a node of a list of siblings is rendered, the link and
\* image tables of the state are the definitions declared among the nodes
\* of that list, whatever was rendered before the node.
C20_TablesOfSiblings ==
    rend.pc = "done" =>
      \A i \in 1..Len(rend.visits) :
         /\ rend.visits[i].links = rend.visits[i].declared.links
         /\ rend.visits[i].images = rend.visits[i].declared.images

MigrationOver == mig.pc \in {"ok", "err"}

TaskPaths == DOMAIN mig.tasks

Siblings(p, s) == p # s /\ Len(p) = Len(s) /\ Parent(p) = Parent(s)

\* C11: when the migration of one child fails, the migrations of its
\* siblings are not cancelled and run to completion, those not yet started
\* too, and the caller has an outcome for every branch.
C11_SiblingsRunOn ==
    MigrationOver =>
      \A p \in TaskPaths, s \in TaskPaths :
         (Siblings(p, s) /\ mig.tasks[p].st = "err") => mig.tasks[s].st \in {"ok", "err"}

\* C13: at any time at most 3 migrations of direct children of one parent
\* (the workspace or a collection) are in flight.
C13_BoundedFanOut ==
    \A q \in {<<>>} \cup TaskPaths : Cardinality(InProgress(mig, q)) <= BufferedMax

\* A parent with three children in flight, one of them a fourth child that
\* began after an earlier one was done.
C13_Witness ==
    \E q \in {<<>>} \cup TaskPaths :
       /\ Cardinality(InProgress(mig, q)) = BufferedMax
       /\ \E i \in InProgress(mig, q) : i > BufferedMax
       /\ \E i \in 1..BufferedMax : mig.tasks[q \o <<i>>].st = "ok"

\* C14: an entry of the url map is never removed and its value never
\* changes, also when a source page is a child of more than one parent.
C14_MapAppendOnly ==
    [][\A k \in DOMAIN mig.urlmap :
         k \in DOMAIN mig'.urlmap /\ mig'.urlmap[k] = mig.urlmap[k]]_vars

\* The content of the item of task p with the references the map had at
\* the time replaced, the others as they were.
Expected(p) ==
    LET content == mig.ws.pages[mig.tasks[p].page].content[1]
        seen == mig.tasks[p].seen
    IN [i \in 1..Len(content) |->
          IF content[i] \in DOMAIN seen THEN seen[content[i]] ELSE content[i]]

Remapped(p) == mig.tasks[p].remapped # None

LinkedPages(p) ==
    LET content == mig.ws.pages[mig.tasks[p].page].content[1]
    IN {id \in DOMAIN mig.ws.pages \ {mig.tasks[p].page} :
          \E i \in 1..Len(content) : content[i] = url(id)}

\* C16: when the migration of a page begins, every page of the workspace
\* it links has been migrated and is in the url map.
C16_LinkedPagesFirst ==
    \A p \in TaskPaths :
       Remapped(p) => \A id \in LinkedPages(p) : url(id) \in DOMAIN mig.tasks[p].seen
\* The blocks of a tree of blocks.
RECURSIVE BlocksIn(_)
BlocksIn(blocks) ==
    UNION {{blocks[i]}
           \cup (IF blocks[i].children = None THEN {}
                 ELSE BlocksIn(blocks[i].children[1])) : i \in 1..Len(blocks)}

\* The nodes of a tree of nodes.
RECURSIVE NodesIn(_)
NodesIn(nodes) ==
    UNION {{nodes[i]} \cup NodesIn(nodes[i].children) : i \in 1..Len(nodes)}

Rendering == rend.pc = "done"

\* C21: a definition declared among the nested children of a list item is
\* in effect only below that item: no text line at the top of the output,
\* the text line of a later item of the list included, resolves a
\* reference to the url that only the children of an item declare.
C21_NestedDefinitionsStayInside ==
    Rendering =>
      \A i \in 1..Len(rend.blocks) :
         \A j \in 1..Len(rend.blocks[i].rich_text) :
            rend.blocks[i].rich_text[j].link # Some(UrlNested)

\* C22: a reference that names no definition renders with its identifier
\* as the target: a link reference as a link span to the identifier, an
\* image reference as an image block whose url is the identifier.
C22_UnresolvedFallsBack ==
    Rendering =>
      /\ \A i \in 1..Len(rend.input) :
            LET node == rend.input[i]
            IN /\ Len(rend.input) = 1
               /\ node.type = "paragraph"
               /\ Len(node.children) = 1
               /\ node.children[1].type = "linkReference"
               => /\ Len(rend.blocks) = 1
                  /\ \A j \in 1..Len(rend.blocks[1].rich_text) :
                        rend.blocks[1].rich_text[j].link
                          = Some(node.children[1].identifier)
      /\ \A i \in 1..Len(rend.input) :
            /\ rend.input[i].type = "imageReference"
            /\ rend.input[i].identifier \notin keys_of(rend.input, "image", "alt")
            => \E k \in 1..Len(rend.blocks) :
                  /\ rend.blocks[k].block_type = "image"
                  /\ rend.blocks[k].url = rend.input[i].identifier

\* The nodes without the definitions of b, at every level.
RECURSIVE WithoutUnhandled(_)
WithoutUnhandled(nodes) ==
    LET kept == SelectSeq(nodes,
                  LAMBDA n : ~(n.type = "definition" /\ n.identifier = IdB))
    IN [i \in 1..Len(kept) |->
          [kept[i] EXCEPT !.children = WithoutUnhandled(kept[i].children)]]

\* C23: a node render_node has no arm for (a definition, here of an
\* identifier nothing refers to) gives no block and leaves the blocks of
\* its siblings as they are without it.
C23_UnhandledAsIfAbsent ==
    Rendering => rend.blocks = convert(WithoutUnhandled(rend.input))

\* The text line of an item of a source list and of a list item block.
ItemLine(item) ==
    IF item.children # <<>> /\ Head(item.children).type = "paragraph"
    THEN joined_text(Head(item.children).children) ELSE <<>>

BlockLine(block) == Contents(block.rich_text)

ItemTypes == {"bulleted_list_item", "numbered_list_item"}

\* The pairs of the line of an item and the line of an item of a list
\* among its children, in the source and in the blocks.
SourceNesting(nodes) ==
    UNION {UNION {{<<ItemLine(x), ItemLine(x.children[i].children[k])>> :
                     k \in 1..Len(x.children[i].children)} :
                  i \in {j \in 1..Len(x.children) : x.children[j].type = "list"}} :
           x \in {n \in NodesIn(nodes) : n.type = "listItem"}}

BlockNesting(blocks) ==
    UNION {{<<BlockLine(b), BlockLine(b.children[1][k])>> :
              k \in {j \in 1..Len(b.children[1]) :
                       b.children[1][j].block_type \in ItemTypes}} :
           b \in {c \in BlocksIn(blocks) :
                    c.block_type \in ItemTypes /\ c.children # None}}

\* C24: the blocks convert returns nest as the source lists do, at every
\* depth: the block of an item carries the blocks of the items of every
\* list among the item's children, and no other item.
C24_NestingPreserved ==
    Rendering /\ rend.input \in ItemDocs =>
      BlockNesting(rend.blocks) = SourceNesting(rend.input)

\* The list item blocks at a level of nesting, 1 for the top of the output.
RECURSIVE ItemsAtLevel(_, _)
ItemsAtLevel(blocks, level) ==
    LET items == {blocks[i] : i \in {j \in 1..Len(blocks) :
                                       blocks[j].block_type \in ItemTypes}}
    IN IF level = 1 THEN items
       ELSE UNION {ItemsAtLevel(b.children[1], level - 1) :
                     b \in {c \in items : c.children # None}}

\* The ceiling of the nesting counter of convert.rs (convert.rs:624).
NestingCeiling == 2

\* C25: the block of an item of a list more than two levels deep has no
\* children attached.
C25_DeepItemsCarryNoChildren ==
    Rendering =>
      \A b \in ItemsAtLevel(rend.blocks, NestingCeiling + 1) :
         b.children \in {None, Some(<<>>)}

\* The child of an item is in the output of the item: as its line or as
\* one of the blocks it carries.
KeptIn(child, block, siblings) ==
    LET kids == IF block.children = None THEN <<>> ELSE block.children[1]
        of(type) == {k \in 1..Len(kids) : kids[k].block_type = type}
    IN CASE child.type = "paragraph" ->
              \/ BlockLine(block) = joined_text(child.children)
              \/ \E k \in of("paragraph") :
                    BlockLine(kids[k]) = joined_text(child.children)
         [] child.type = "code" ->
              \E k \in of("code") : BlockLine(kids[k]) = child.value
         [] child.type = "list" ->
              \E k \in 1..Len(kids) :
                 /\ kids[k].block_type \in ItemTypes
                 /\ BlockLine(kids[k]) = ItemLine(child.children[1])
         [] child.type = "thematicBreak" ->
              Cardinality(of("divider"))
                = Cardinality({i \in 1..Len(siblings) :
                                 siblings[i].type = "thematicBreak"})
         [] OTHER -> TRUE

\* C26: no child of a list item is dropped, whatever the kind of the
\* first: every paragraph, code block, list and rule among the children of
\* the item is the line of the item's block or among the blocks it carries.
C26_NoChildDropped ==
    Rendering /\ rend.input \in ItemDocs =>
      LET item == rend.input[1].children[1]
      IN \A i \in 1..Len(item.children) :
            KeptIn(item.children[i], rend.blocks[1], item.children)

ItemVariant(ordered) ==
    IF ordered THEN "numbered_list_item" ELSE "bulleted_list_item"

\* The line and the variant an item of a source list is to have, for the
\* items with a line.
SourceVariants(nodes) ==
    UNION {{<<ItemLine(l.children[k]), ItemVariant(l.ordered)>> :
              k \in 1..Len(l.children)} :
           l \in {n \in NodesIn(nodes) : n.type = "list"}}

BlockVariants(blocks) ==
    {<<BlockLine(b), b.block_type>> :
        b \in {c \in BlocksIn(blocks) :
                 c.block_type \in ItemTypes /\ BlockLine(c) # <<>>}}

\* C27: a list gives no block of its own, only one block per item; every
\* item block is of the variant of the list its item is in, also the items
\* that follow an item with a list of the other variant below it.
C27_ItemsOfTheirOwnList ==
    Rendering /\ rend.input \in ItemDocs =>
      /\ Len(rend.blocks) = Len(rend.input[1].children)
      /\ \A i \in 1..Len(rend.blocks) :
            rend.blocks[i].block_type = ItemVariant(rend.input[1].ordered)
      /\ BlockVariants(rend.blocks) \subseteq SourceVariants(rend.input)

\* A list whose first item has a list of the other variant below its
\* paragraph is rendered: two blocks of the outer variant, the first with
\* an item of the other variant.
C27_Witness ==
    /\ Rendering
    /\ rend.input \in ItemDocs
    /\ Len(rend.input[1].children[1].children) = 2
    /\ rend.input[1].children[1].children[2].type = "list"
    /\ Len(rend.blocks) = 2
    /\ rend.blocks[1].children # None
    /\ \E k \in 1..Len(rend.blocks[1].children[1]) :
          /\ rend.blocks[1].children[1][k].block_type \in ItemTypes
          /\ rend.blocks[1].children[1][k].block_type # rend.blocks[1].block_type
    /\ rend.blocks[2].block_type = rend.blocks[1].block_type

\* The cells of the rows of a source table.
RowWidths(table) ==
    [r \in 1..Len(table.children) |-> Len(table.children[r].children)]

\* C28: a table gives one table block; its children are one row block per
\* source row, in order, each with the cells of its row and no more; its
\* width is the most cells of a row, 1 when there is no row or no cell.
C28_TableShape ==
    Rendering /\ rend.input \in TableDocs =>
      LET widths == RowWidths(rend.input[1])
      IN /\ Len(rend.blocks) = 1
         /\ rend.blocks[1].block_type = "table"
         /\ rend.blocks[1].children # None
         /\ LET rows == rend.blocks[1].children[1]
            IN /\ Len(rows) = Len(widths)
               /\ \A r \in 1..Len(rows) :
                     /\ rows[r].block_type = "table_row"
                     /\ Len(rows[r].cells) = widths[r]
                     /\ \A c \in 1..widths[r] :
                           Contents(rows[r].cells[c]) = <<r, c>>
         /\ rend.blocks[1].table_width
              = SetMax({1} \cup {widths[r] : r \in 1..Len(widths)})

\* A table with a row shorter than another and a table without a cell are
\* rendered.
C28_Witness ==
    /\ Rendering
    /\ rend.input \in TableDocs
    /\ LET widths == RowWidths(rend.input[1])
       IN \/ /\ Len(widths) = 2
             /\ widths[1] < widths[2]
             /\ rend.blocks[1].table_width = widths[2]
             /\ Len(rend.blocks[1].children[1][1].cells) = widths[1]
          \/ /\ Len(widths) = 1
             /\ widths[1] = 0
             /\ rend.blocks[1].table_width = 1

\* The remote block and the blocks below it.
RECURSIVE Below(_)
Below(id) ==
    LET kids == remote.blocks[id].kids
    IN {id} \cup UNION {Below(kids[i]) : i \in 1..Len(kids)}

\* C29: a deep block goes out without its children as the last block of
\* its write; an append below the page goes to the last block of an
\* earlier append, the first one without an anchor; and once the planner
\* has appended again to the parent of that block, with the block as the
\* anchor, nothing more is appended to the block or below it.
C29_DeepBlockStep ==
    PageRun =>
      /\ (AppendInFlight /\ stack # <<>> /\ Top.pc = "await106") =>
            /\ Last(exec.request.children).children = None
            /\ Top.maybe_children # None
            /\ Top.maybe_children[1] # <<>>
      /\ \A k \in 1..Len(writes) :
            writes[k].parent_id # mp.page_id =>
               /\ \E j \in 1..(k - 1) : writes[k].parent_id = Last(writes[j].ids)
               /\ WritesTo(writes[k].parent_id, k - 1) = {} =>
                     writes[k].after = children_anchor
      /\ \A j \in 1..Len(writes) :
            LET head_id == Last(writes[j].ids)
                later == {m \in (j + 1)..Len(writes) :
                            writes[m].parent_id = writes[j].parent_id}
            IN (later # {} /\ WritesTo(head_id, Len(writes)) # {}) =>
                  LET m == CHOOSE x \in later : \A y \in later : x <= y
                  IN /\ writes[m].after = Some(head_id)
                     /\ \A k \in (m + 1)..Len(writes) :
                           writes[k].parent_id \notin Below(head_id)

\* A deep block was appended, then its children under its id, then the
\* rest of the queue under the parent of the block, after the block.
C29_Witness ==
    /\ PageRun
    /\ \E j, k, m \in 1..Len(writes) :
          /\ j < k /\ k < m
          /\ writes[k].parent_id = Last(writes[j].ids)
          /\ writes[k].after = None
          /\ writes[m].parent_id = writes[j].parent_id
          /\ writes[m].after = Some(Last(writes[j].ids))

\* The lists of sibling blocks of a batch: the batch and the children of
\* every block in it, at every level.
RECURSIVE SiblingListsOf(_)
SiblingListsOf(blocks) ==
    {blocks} \cup UNION {SiblingListsOf(Carried(blocks[i])) : i \in 1..Len(blocks)}

\* C30: every list of sibling blocks of an append of the planner, the
\* children a block carries included, has at most 100 blocks.
C30_EverySiblingListBounded ==
    AppendInFlight =>
      \A list \in SiblingListsOf(exec.request.children) : Len(list) <= BatchLimit

\* C31: between two attempts of one write there is a delay, for do_create
\* as for do_append: a call that made n attempts made at least n - 1
\* delays.
C31_DelayBetweenAttempts == exec.delays >= exec.calls - 1

\* The ids the appends of the run returned.
ReturnedIds == UNION {{writes[j].ids[i] : i \in 1..Len(writes[j].ids)} :
                        j \in 1..Len(writes)}

\* C33: in a run of create_page no remote call is made before the blocks
\* are rendered; the create request has no children; an append is called
\* only after the create returned the page, under the page or under an id
\* an earlier append returned; when the create fails nothing is appended.
C33_CreateThenAppend ==
    PageRun =>
      /\ mp.pc = "start" => (exec = ExecIdle /\ remote = RemoteInit)
      /\ exec.pc # "idle" => (mp.pc # "start" /\ mp.blocks # <<>>)
      /\ (exec.fn = "create" /\ exec.pc = "request") =>
            /\ exec.request.children = <<>>
            /\ writes = <<>>
      /\ exec.fn = "append" =>
            /\ mp.pc = "await78"
            /\ mp.page_id \in DOMAIN remote.blocks
            /\ remote.blocks[mp.page_id].block_type = "page"
            /\ exec.parent_id \in {mp.page_id} \cup ReturnedIds
      /\ mp.page_id = 0 => (writes = <<>> /\ stack = <<>> /\ exec.fn # "append")

\* An append under a block that an earlier append returned is with the
\* remote.
C33_Witness ==
    /\ AppendInFlight
    /\ exec.parent_id # mp.page_id
    /\ exec.parent_id \in ReturnedIds

\* C32: a conflict is the result of a write of the migration only after
\* the retries of the executor, for the writes of a collection (its page,
\* its list of links) as for those of create_page.
C32_ConflictsRetried ==
    \A p \in TaskPaths :
       (mig.tasks[p].err # None /\ mig.tasks[p].err[1].status = 409) =>
          mig.tasks[p].err[1].attempts = MAX_RETRIES + 1

\* The migrations that wait for an answer of the remote.
Suspended == {p \in TaskPaths : mig.tasks[p].st \in {"create", "append"}}

\* C34: in the whole walk, the children of nested collections included, at
\* most 3 migrations of pages wait for the remote at a time.
C34_GlobalFanOut == Cardinality(Suspended) <= BufferedMax

C37_LinksInChildOrder ==
    /\ \A i, j \in 1..Len(mig.appended) :
          mig.appended[i].parent_id = mig.appended[j].parent_id => i = j
    /\ \A i \in 1..Len(mig.appended) :
          \E p \in TaskPaths :
             /\ KindOf(mig, p) = "collection"
             /\ mig.tasks[p].notion = Some(mig.appended[i].parent_id)
             /\ LET kids == Kids(mig.ws, p)
                IN /\ \A k \in 1..Len(kids) : mig.tasks[p \o <<k>>].st = "ok"
                   /\ mig.appended[i].links
                        = [k \in 1..Len(kids) |-> mig.tasks[p \o <<k>>].notion[1]]

\* Branch b called lock() and another guard lives.
Waits(b) ==
    /\ lck.polled = Some(b)
    /\ lck.br[b].pc \in {"remap", "insert"}
    /\ lck.holder # None

\* C36: the guard of the url map lives only in the branch that is running,
\* during one pass of remap over a table that does not change or during
\* one insert; no suspended branch holds it, and no branch waits for it.
C36_LockNotHeldAcrossAwait ==
    \A b \in DOMAIN lck.br :
       /\ ~Waits(b)
       /\ lck.br[b].pc \in {"new", "send", "create", "created", "failed", "done"} =>
             lck.holder # Some(b)
       /\ lck.holder = Some(b) =>
             /\ lck.polled = Some(b)
             /\ lck.br[b].pc \in {"fold", "put", "stored"}
             /\ lck.br[b].pc \in {"fold", "put"} => lck.map = lck.br[b].snap
             /\ lck.br[b].pc = "stored" =>
                   lck.map = insert(lck.br[b].snap, url(lck.br[b].page),
                                    notion_url(lck.br[b].notion[1]))

\* A branch is in the middle of remap over a table with an entry, it has
\* replaced a url, and another branch is suspended at its create.
C36_Witness ==
    \E b, c \in DOMAIN lck.br :
       /\ lck.holder = Some(b)
       /\ lck.br[b].pc = "fold"
       /\ lck.br[b].snap # <<>>
       /\ lck.br[b].content # Branch(lck.br[b].page, "item").content
       /\ lck.br[c].pc = "create"

\* The ids of the activations of cache_page, outermost first.
Entered ==
    [i \in 1..(Len(cch.stack) - 1) |-> cch.stack[i + 1].id]

\* C38: no page is entered while it is in progress, and cache_workspace
\* returns, on graphs with cycles of mentions and of children too.
C38_CacheTerminates ==
    /\ [](\A i, j \in DOMAIN Entered : Entered[i] = Entered[j] => i = j)
    /\ <>(cch.pc \in {"done", "err"})

\* The run is over on a graph with a cycle, all of its pages were entered
\* and a page in progress was declined.
C38_Witness ==
    /\ cch.pc = "done"
    /\ cch.pages = Ring(MaxPages).pages
    /\ cch.refused # {}
    /\ \A id \in DOMAIN cch.pages : id \in cch.pending \cup cch.cached

\* C39: no page is fetched from the remote twice in a run, and a page that
\* was fetched is pending or cached.
C39_FetchedOnce ==
    \A id \in DOMAIN cch.fetched :
       /\ cch.fetched[id] <= 1
       /\ cch.fetched[id] = 1 => id \in cch.pending \cup cch.cached

\* The run is over; a page that several pages mention was fetched from the
\* remote, saved, and served from the disk afterwards, and a page whose
\* file was not written was declined.
C39_Witness ==
    /\ cch.pc = "done"
    /\ \E id, other \in DOMAIN cch.fetched :
          /\ cch.fetched[id] = 1
          /\ id \in cch.served
          /\ cch.fetched[other] = 1
          /\ other \in cch.refused
          /\ other \notin cch.cached

\* C40: no id is in pending and in cached, and the id of a cache_page that
\* has just returned a page is not in pending.
C40_PendingIsInProgress ==
    /\ cch.pending \cap cch.cached = {}
    /\ cch.ret.ok => cch.ret.id \notin cch.pending

====
